---------------------------- MODULE Spec2Model ----------------------------
(***************************************************************************)
(* WinGSM Backup Manager: the scheduler (SchedulerService), the job        *)
(* executor (SchedulerService.execute_backup_async), the archive and       *)
(* retention code (BackupService), the restore engine (RestoreService)     *)
(* and the schedule handling of the main window (MainWindow).              *)
(***************************************************************************)
EXTENDS Integers, Sequences, FiniteSets, TLC

(***************************************************************************)
(* Bounds of the model.                                                    *)
(***************************************************************************)
MaxSchedules == 2      \* longest SchedulerService.schedules list explored
MaxJobs == 1           \* job executions started in one behaviour
MaxAppOps == 3         \* main-window add/edit/delete operations in one behaviour

(***************************************************************************)
(* Values.                                                                 *)
(***************************************************************************)
ServerIds == {"A", "B", "C"}
ScheduleIds == {"s1", "s2"}
NoPath == <<>>

\* models.BackupSchedule: the fields the scheduler and the job executor read.
BackupSchedule(id, en, srv, root, ret, cloud, ctype) ==
    [schedule_id |-> id, enabled |-> en, server_ids |-> srv,
     backup_path |-> root, retention_days |-> ret,
     enable_cloud_backup |-> cloud, cloud_backup_type |-> ctype]

\* BackupSchedule(): the dataclass defaults, used as the fallback schedule.
DefaultSchedule == BackupSchedule("", TRUE, {}, "", 7, FALSE, "none")

\* The schedule definitions the scheduler operations are exercised with.
ScheduleDefs ==
    { BackupSchedule("s1", TRUE, {"A"}, "r1", 7, FALSE, "none"),
      BackupSchedule("s1", TRUE, {"B"}, "r2", 3, FALSE, "none"),
      BackupSchedule("s1", FALSE, {"A"}, "r1", 7, FALSE, "none"),
      BackupSchedule("s2", TRUE, {"C"}, "r2", 7, FALSE, "none") }

VARIABLES
    running,                    \* SchedulerService.scheduler.running
    schedules,                  \* SchedulerService.schedules (a list)
    jobstore,                   \* the scheduler's job store: armed triggers, by schedule id
    pending_jobs,               \* triggers added while the scheduler is stopped
    added,                      \* history: per schedule id, the definitions passed to add_schedule since its last remove
    appSchedules,               \* MainWindow.schedules, which is config.schedules
    appOps,                     \* number of main-window schedule operations so far
    jobs,                       \* job executions (BackupJob and the executor's position), in start order
    delivered,                  \* the BackupJobs handed to the completion callback, in order
    backup_completed_callback,  \* "none", "ok" or "raises"
    configServers,              \* config.servers: the persisted server registry
    savePathExists,             \* ids of the servers whose save_game_path exists
    cloudReady,                 \* backends with is_authenticated / is_initialized set
    srvRunning,                 \* ids of the servers the process tool reports running
    archiveRaises,              \* ids of the servers whose archive write raises
    uploadOutcome,              \* per server: what upload_backup does ("true", "false", "raises")
    fs,                         \* the snapshot entries below the backup roots
    now,                        \* the clock, in seconds
    lastSweep,                  \* history: the last retention sweep (arguments, clock, entries before)
    rs,                         \* the restore engine: file system view and position of restore_backup
    cron,                       \* the weekly trigger being armed and the weekdays gone by
    backups,                    \* the backup tree on disk and the list discover_backups returned
    registry                    \* the server registry: discovery, persisted config, MainWindow.servers

schedVars == <<running, schedules, jobstore, pending_jobs, added>>
appVars == <<appSchedules, appOps>>
jobVars == <<jobs, delivered>>
envVars == <<backup_completed_callback, configServers, savePathExists, cloudReady,
             srvRunning, archiveRaises, uploadOutcome>>
fsVars == <<fs, now, lastSweep>>
sideVars == <<cron, backups, registry>>

vars == <<running, schedules, jobstore, pending_jobs, added, appSchedules, appOps,
          jobs, delivered, backup_completed_callback, configServers, savePathExists,
          cloudReady, srvRunning, archiveRaises, uploadOutcome,
          fs, now, lastSweep, rs, cron, backups, registry>>

\* nothing is being armed, nothing discovered
SideIdle ==
    /\ cron = [pc |-> "idle"]
    /\ backups = [pc |-> "idle"]
    /\ registry = [pc |-> "idle"]

(***************************************************************************)
(* Sequence helpers.                                                       *)
(***************************************************************************)
Range(s) == { s[i] : i \in DOMAIN s }

Count(s, x) == Cardinality({ i \in DOMAIN s : s[i] = x })

\* [x for x in s if x != id]
RECURSIVE Without(_, _)
Without(s, id) ==
    IF s = <<>> THEN <<>>
    ELSE IF Head(s) = id THEN Without(Tail(s), id)
         ELSE <<Head(s)>> \o Without(Tail(s), id)

\* s without its first element equal to id
RECURSIVE WithoutFirst(_, _)
WithoutFirst(s, id) ==
    IF s = <<>> THEN <<>>
    ELSE IF Head(s) = id THEN Tail(s)
         ELSE <<Head(s)>> \o WithoutFirst(Tail(s), id)

(***************************************************************************)
(* The trigger store of the background scheduler, as add_schedule,         *)
(* remove_schedule, start and stop use it.                                 *)
(***************************************************************************)
\* add_job without replace_existing: a second trigger under the same id
RealAddJobNoReplace(store, id) == Append(store, id)

\* scheduler.add_job(..., id=job_id, replace_existing=True)
RealAddJob(store, id) == Append(Without(store, id), id)

\* scheduler.start(): the triggers added while stopped are scheduled, in order
RECURSIVE AddAll(_, _)
AddAll(store, ids) ==
    IF ids = <<>> THEN store
    ELSE AddAll(RealAddJob(store, Head(ids)), Tail(ids))

\* The scheduler's state as one value, so that callers can chain operations.
SchedState ==
    [running |-> running, schedules |-> schedules, jobstore |-> jobstore,
     pending_jobs |-> pending_jobs, added |-> added]

SetSched(st) ==
    /\ running' = st.running
    /\ schedules' = st.schedules
    /\ jobstore' = st.jobstore
    /\ pending_jobs' = st.pending_jobs
    /\ added' = st.added

\* SchedulerService.start: nothing on a running scheduler; else the
\* pending triggers are scheduled
Started(st) ==
    IF st.running THEN st
    ELSE [st EXCEPT !.running = TRUE,
                    !.jobstore = AddAll(st.jobstore, st.pending_jobs),
                    !.pending_jobs = <<>>]

\* SchedulerService.stop: nothing on a stopped scheduler; else shutdown(),
\* which empties the in-memory job store
Stopped(st) ==
    IF ~st.running THEN st
    ELSE [st EXCEPT !.running = FALSE, !.jobstore = <<>>]

\* lines 74-80: add_job hands the trigger to the store, or keeps it pending
\* while the scheduler is stopped
WithJob(st, id) ==
    IF st.running
      THEN [st EXCEPT !.jobstore = RealAddJob(st.jobstore, id)]
      ELSE [st EXCEPT !.pending_jobs = Append(st.pending_jobs, id)]

\* SchedulerService.add_schedule
WithSchedule(st, s) ==
    LET stored == [st EXCEPT !.schedules = Append(st.schedules, s),
                             !.added[s.schedule_id] = Append(@, s)]
    IN IF ~s.enabled THEN stored ELSE WithJob(stored, s.schedule_id)

\* [s for s in self.schedules if s.schedule_id != schedule_id]
RECURSIVE WithoutSchedule(_, _)
WithoutSchedule(ss, id) ==
    IF ss = <<>> THEN <<>>
    ELSE IF Head(ss).schedule_id = id THEN WithoutSchedule(Tail(ss), id)
         ELSE <<Head(ss)>> \o WithoutSchedule(Tail(ss), id)

\* SchedulerService.remove_schedule: remove_job takes the trigger out of the
\* store of a running scheduler, or the first matching pending one of a
\* stopped scheduler; a missing job is swallowed
Removed(st, id) ==
    LET dropped == [st EXCEPT !.schedules = WithoutSchedule(st.schedules, id),
                              !.added[id] = <<>>]
    IN IF st.running
         THEN [dropped EXCEPT !.jobstore = Without(st.jobstore, id)]
         ELSE [dropped EXCEPT !.pending_jobs = WithoutFirst(st.pending_jobs, id)]

\* what the scheduler operations leave alone
SchedFrame ==
    UNCHANGED <<appVars, jobVars, envVars, fsVars, rs, sideVars>>

start == SetSched(Started(SchedState)) /\ SchedFrame

stop == SetSched(Stopped(SchedState)) /\ SchedFrame

add_schedule(s) ==
    /\ Len(schedules) < MaxSchedules
    /\ Len(pending_jobs) < MaxSchedules
    /\ SetSched(WithSchedule(SchedState, s))
    /\ SchedFrame

remove_schedule(id) == SetSched(Removed(SchedState, id)) /\ SchedFrame

\* Python's None
None == [none |-> TRUE]

\* the first stored schedule with the id, else None
RECURSIVE FirstSchedule(_, _)
FirstSchedule(ss, id) ==
    IF ss = <<>> THEN None
    ELSE IF Head(ss).schedule_id = id THEN Head(ss)
         ELSE FirstSchedule(Tail(ss), id)

\* SchedulerService.get_schedule
get_schedule(id) == FirstSchedule(schedules, id)

(***************************************************************************)
(* The job executor: SchedulerService.execute_backup_async, with           *)
(* BackupService.backup_server and BackupService.cleanup_old_backups.      *)
(***************************************************************************)
\* models.ServerConfig
ServerConfig(id, en) == [server_id |-> id, server_name |-> id, enabled |-> en]

\* models.ServerBackupResult with its defaults
ServerBackupResult(sid) ==
    [server_id |-> sid, success |-> FALSE, backup_path |-> NoPath,
     cloud_backup_path |-> NoPath, cloud_backup_success |-> FALSE,
     error_message |-> ""]

\* the targeted servers, whether enabled or not
RECURSIVE EnabledServersAnyFlag(_, _)
EnabledServersAnyFlag(servers, schedule) ==
    IF servers = <<>> THEN <<>>
    ELSE IF Head(servers).server_id \in schedule.server_ids
           THEN <<Head(servers).server_id>> \o EnabledServersAnyFlag(Tail(servers), schedule)
           ELSE EnabledServersAnyFlag(Tail(servers), schedule)

\* [s for s in servers if s.server_id in schedule.server_ids and s.enabled]
RECURSIVE EnabledServers(_, _)
EnabledServers(servers, schedule) ==
    IF servers = <<>> THEN <<>>
    ELSE IF Head(servers).server_id \in schedule.server_ids /\ Head(servers).enabled
           THEN <<Head(servers).server_id>> \o EnabledServers(Tail(servers), schedule)
           ELSE EnabledServers(Tail(servers), schedule)

\* execute_backup_async up to the server loop: the schedule lookup with its
\* fallback, the BackupJob, and the list of servers to process
NewJob(schedule_id, servers, via) ==
    LET found == get_schedule(schedule_id)
        schedule == IF found = None THEN DefaultSchedule ELSE found
        targets == EnabledServers(servers, schedule)
    IN [job_id |-> Len(jobs) + 1, schedule_id |-> schedule_id, via |-> via,
        schedule |-> schedule, servers |-> servers, enabled_servers |-> targets,
        idx |-> 1, pc |-> IF targets = <<>> THEN "status" ELSE "check",
        status |-> "running", message |-> "", server_results |-> <<>>,
        trace |-> <<>>, sweeps |-> <<>>]

\* what the job executor leaves alone
JobFrame ==
    UNCHANGED <<schedVars, appVars, backup_completed_callback, configServers,
                savePathExists, cloudReady, archiveRaises, uploadOutcome,
                now, rs, sideVars>>

\* a trigger that keeps firing whatever the scheduler's state
ArmedOnceAdded(id) == added[id] # <<>>

\* the triggers the background scheduler fires: those in the store of a
\* running scheduler
Armed(id) ==
    /\ running
    /\ id \in Range(jobstore)

\* SchedulerService._execute_backup_job: an armed trigger of a running
\* scheduler fires; the servers come from the persisted config
Fire(id) ==
    /\ Armed(id)
    /\ Len(jobs) < MaxJobs
    /\ jobs' = Append(jobs, NewJob(id, configServers, "fire"))
    /\ UNCHANGED <<delivered, srvRunning, fs, lastSweep>>
    /\ JobFrame

\* execute_backup_async called directly (run now) with a server list
RunNow(id, servers) ==
    /\ Len(jobs) < MaxJobs
    /\ jobs' = Append(jobs, NewJob(id, servers, "runNow"))
    /\ UNCHANGED <<delivered, srvRunning, fs, lastSweep>>
    /\ JobFrame

\* the server the loop is at, and the result being built for it
CurServer(j) == jobs[j].enabled_servers[jobs[j].idx]
CurResult(j) == jobs[j].server_results[Len(jobs[j].server_results)]

\* a stop sent to every server, running or not
StopAlways(sid) == TRUE

\* line 145: is_server_running(server.server_id)
StopWanted(sid) == sid \in srvRunning

\* lines 144-147: a server reported running is sent stop (the command's
\* result is ignored; the tool is taken to stop it), then the grace wait
StepCheck(j) ==
    /\ jobs[j].pc = "check"
    /\ LET sid == CurServer(j)
           checked == IF sid \in srvRunning THEN "check_running" ELSE "check_stopped"
       IN
         IF StopWanted(sid)
           THEN /\ srvRunning' = srvRunning \ {sid}
                /\ jobs' = [jobs EXCEPT ![j].pc = "archive",
                                        ![j].trace = @ \o <<<<checked, sid>>, <<"stop", sid>>,
                                                            <<"wait", sid>>>>]
           ELSE /\ jobs' = [jobs EXCEPT ![j].pc = "archive",
                                        ![j].trace = Append(@, <<checked, sid>>)]
                /\ UNCHANGED srvRunning
    /\ UNCHANGED <<delivered, fs, lastSweep>>
    /\ JobFrame

\* the snapshot directory {backup_root_path}/{server_id}/{timestamp}
SnapshotDir(root, sid, t) ==
    [root |-> root, server |-> sid, name |-> t, mtime |-> t, isDir |-> TRUE]

\* mkdir(parents=True, exist_ok=True) and the write of the zip into it
WithSnapshot(entries, root, sid, t) ==
    { e \in entries : ~(e.root = root /\ e.server = sid /\ e.name = t) }
        \cup {SnapshotDir(root, sid, t)}

\* BackupService.backup_server: the result for a missing save path
MissingPathResult(sid) ==
    [ServerBackupResult(sid) EXCEPT
        !.error_message = "Savegame path not found or invalid"]

\* BackupService.backup_server: the result when the archive was written
ArchivedResult(sid, root, t) ==
    [ServerBackupResult(sid) EXCEPT !.success = TRUE, !.backup_path = <<root, sid, t>>]

\* BackupService.backup_server: the result when an exception was caught
ArchiveErrorResult(sid) ==
    [ServerBackupResult(sid) EXCEPT !.error_message = "exception"]

\* BackupService.backup_server, lines 22-59: the result, by what the
\* server's save path and the archive write do
backup_server(sid, root, t) ==
    IF sid \notin savePathExists THEN MissingPathResult(sid)
    ELSE IF sid \in archiveRaises THEN ArchiveErrorResult(sid)
    ELSE ArchivedResult(sid, root, t)

\* lines 150-153 with BackupService.backup_server; the snapshot directory is
\* made before the archive is written
StepArchive(j) ==
    /\ jobs[j].pc = "archive"
    /\ LET sid == CurServer(j)
           root == jobs[j].schedule.backup_path
           result == backup_server(sid, root, now)
           ev == IF result.success THEN "archive_ok"
                 ELSE IF sid \in savePathExists THEN "archive_error"
                 ELSE "archive_missing"
       IN /\ jobs' = [jobs EXCEPT ![j].pc = "cloud",
                                  ![j].server_results = Append(@, result),
                                  ![j].trace = Append(@, <<ev, sid>>)]
          /\ fs' = IF sid \in savePathExists
                     THEN WithSnapshot(fs, root, sid, now) ELSE fs
    /\ UNCHANGED <<delivered, srvRunning, lastSweep>>
    /\ JobFrame

\* line 156-160: the condition of the cloud step
CloudWanted(schedule, result) ==
    result.success /\ schedule.enable_cloud_backup /\ result.backup_path # NoPath

\* lines 165-166 and 178-179: the selected backend is ready
BackendReady(schedule) ==
    /\ schedule.cloud_backup_type \in {"onedrive", "google_cloud"}
    /\ schedule.cloud_backup_type \in cloudReady

\* lines 175-176 and 188-189: the upload returned
UploadedResult(result, sid, ctype, ok) ==
    [result EXCEPT !.cloud_backup_path = <<ctype, sid>>, !.cloud_backup_success = ok]

\* an upload exception that fails the server's backup
UploadRaisedFailsBackup(result) ==
    [result EXCEPT !.cloud_backup_success = FALSE, !.success = FALSE]

\* lines 191-193: the upload raised
UploadRaisedResult(result) == [result EXCEPT !.cloud_backup_success = FALSE]

\* lines 161-193: the result after the upload call, by what the call does
AfterUpload(result, sid, ctype, outcome) ==
    IF outcome = "raises" THEN UploadRaisedResult(result)
    ELSE UploadedResult(result, sid, ctype, outcome = "true")

\* lines 155-193: the cloud upload
StepCloud(j) ==
    /\ jobs[j].pc = "cloud"
    /\ LET sid == CurServer(j)
           schedule == jobs[j].schedule
           result == CurResult(j)
           n == Len(jobs[j].server_results)
       IN IF CloudWanted(schedule, result) /\ BackendReady(schedule)
            THEN jobs' = [jobs EXCEPT
                     ![j].pc = "restart",
                     ![j].server_results[n] =
                         AfterUpload(result, sid, schedule.cloud_backup_type, uploadOutcome[sid]),
                     ![j].trace = Append(@, <<"upload_" \o uploadOutcome[sid], sid>>)]
            ELSE jobs' = [jobs EXCEPT ![j].pc = "restart"]
    /\ UNCHANGED <<delivered, srvRunning, fs, lastSweep>>
    /\ JobFrame

\* restart only after an upload that succeeded
RestartWantedAfterUpload(result) == result.success /\ result.cloud_backup_success

\* line 196: the condition of the restart
RestartWanted(result) == result.success

\* a loop that stops at the first failed server
NextServerOrAbort(job) ==
    IF job.idx = Len(job.enabled_servers)
       \/ ~job.server_results[Len(job.server_results)].success
      THEN "status" ELSE "check"

\* line 142: the loop goes on to the next server, whatever the result of
\* this one; after the last server comes line 209
NextServer(job) ==
    IF job.idx = Len(job.enabled_servers) THEN "status" ELSE "check"

\* lines 195-197 and the loop's advance: start is issued (the command's
\* result is ignored)
StepRestart(j) ==
    /\ jobs[j].pc = "restart"
    /\ LET sid == CurServer(j)
           nextpc == NextServer(jobs[j])
       IN IF RestartWanted(CurResult(j))
            THEN /\ srvRunning' = srvRunning \cup {sid}
                 /\ jobs' = [jobs EXCEPT ![j].pc = nextpc, ![j].idx = @ + 1,
                                           ![j].trace = Append(@, <<"start", sid>>)]
            ELSE /\ jobs' = [jobs EXCEPT ![j].pc = nextpc, ![j].idx = @ + 1]
                 /\ UNCHANGED srvRunning
    /\ UNCHANGED <<delivered, fs, lastSweep>>
    /\ JobFrame

\* all(r.success for r in job.server_results)
AllSucceeded(results) == \A i \in DOMAIN results : results[i].success

\* lines 209-213
JobStatus(results) == IF AllSucceeded(results) THEN "completed" ELSE "failed"

\* lines 209-214
StepStatus(j) ==
    /\ jobs[j].pc = "status"
    /\ jobs' = [jobs EXCEPT ![j].pc = "cleanup",
                            ![j].status = JobStatus(jobs[j].server_results),
                            ![j].trace = Append(@, <<"status", "">>)]
    /\ UNCHANGED <<delivered, srvRunning, fs, lastSweep>>
    /\ JobFrame

(***************************************************************************)
(* The retention sweep: BackupService.cleanup_old_backups.                 *)
(***************************************************************************)
SecondsPerDay == 24 * 60 * 60

\* a cutoff that leaves the retention period out
CutoffDateNow(t, retention_days) == t

\* line 68: cutoff_date
CutoffDate(t, retention_days) == t - retention_days * SecondsPerDay

\* an age test that also removes a directory exactly at the cutoff
IsOldInclusive(mtime, cutoff) == mtime <= cutoff

\* line 79: the age test
IsOld(mtime, cutoff) == mtime < cutoff

\* a sweep that goes through the directories below every root
ExpiredAnyRoot(entries, root, retention_days, t) ==
    { e \in entries : /\ e.isDir
                      /\ IsOld(e.mtime, CutoffDate(t, retention_days)) }

\* lines 70-80: the entries the sweep tries to remove: directories two
\* levels below the root whose mtime is before the cutoff
Expired(entries, root, retention_days, t) ==
    { e \in entries : /\ e.root = root
                      /\ e.isDir
                      /\ IsOld(e.mtime, CutoffDate(t, retention_days)) }

\* cleanup_old_backups: every expired directory is removed, except those
\* whose rmtree raises (the exception is swallowed and the loop goes on)
cleanup_old_backups(root, retention_days) ==
    \E failed \in SUBSET Expired(fs, root, retention_days, now) :
        /\ fs' = fs \ (Expired(fs, root, retention_days, now) \ failed)
        /\ lastSweep' = [root |-> root, retention_days |-> retention_days,
                         at |-> now, before |-> fs, failed |-> failed]

\* a sweep that always gets the arguments of the default schedule
SweepArgsDefault(schedule) ==
    [root |-> DefaultSchedule.backup_path, retention_days |-> DefaultSchedule.retention_days]

\* lines 217-219: the arguments of the sweep
SweepArgs(schedule) ==
    [root |-> schedule.backup_path, retention_days |-> schedule.retention_days]

\* lines 216-219
StepCleanup(j) ==
    /\ jobs[j].pc = "cleanup"
    /\ LET args == SweepArgs(jobs[j].schedule)
       IN /\ cleanup_old_backups(args.root, args.retention_days)
          /\ jobs' = [jobs EXCEPT ![j].pc = "callback",
                                  ![j].trace = Append(@, <<"sweep", args.root>>),
                                  ![j].sweeps = Append(@, [root |-> args.root,
                                                           retention_days |-> args.retention_days,
                                                           at |-> now,
                                                           before |-> fs,
                                                           failed |-> lastSweep'.failed,
                                                           removed |-> fs \ fs'])]
    /\ UNCHANGED <<delivered, srvRunning>>
    /\ JobFrame

\* the BackupJob of an execution
BackupJob(job) ==
    [job_id |-> job.job_id, schedule_id |-> job.schedule_id, status |-> job.status,
     message |-> job.message, server_results |-> job.server_results]

\* a callback called for completed jobs only
CallbackWantedIfCompleted(job) ==
    backup_completed_callback # "none" /\ job.status = "completed"

\* line 221: the callback is called when one is set
CallbackWanted(job) == backup_completed_callback # "none"

\* lines 224-227: the handler of an exception that left the try block
AfterException(job) ==
    [job EXCEPT !.status = "failed", !.message = "exception"]

\* lines 221-227: the completion callback, and the handler its exception reaches
StepCallback(j) ==
    /\ jobs[j].pc = "callback"
    /\ IF CallbackWanted(jobs[j])
         THEN /\ delivered' = Append(delivered, BackupJob(jobs[j]))
              /\ jobs' = [jobs EXCEPT ![j] =
                    IF backup_completed_callback = "raises"
                      THEN [AfterException(jobs[j]) EXCEPT
                              !.pc = "return", !.trace = Append(@, <<"callback", "">>)]
                      ELSE [jobs[j] EXCEPT
                              !.pc = "return", !.trace = Append(@, <<"callback", "">>)]]
         ELSE /\ jobs' = [jobs EXCEPT ![j].pc = "return"]
              /\ UNCHANGED delivered
    /\ UNCHANGED <<srvRunning, fs, lastSweep>>
    /\ JobFrame

\* line 229
StepReturn(j) ==
    /\ jobs[j].pc = "return"
    /\ jobs' = [jobs EXCEPT ![j].pc = "done"]
    /\ UNCHANGED <<delivered, srvRunning, fs, lastSweep>>
    /\ JobFrame

(***************************************************************************)
(* Spec: the job executor. A scheduler holding one schedule is running;    *)
(* triggers fire and run-now calls arrive, and the jobs run step by step.  *)
(***************************************************************************)
Registry == <<ServerConfig("A", TRUE), ServerConfig("B", TRUE), ServerConfig("C", TRUE)>>

\* the server lists a run-now call passes
RunNowLists == { <<ServerConfig("A", TRUE), ServerConfig("B", FALSE), ServerConfig("C", TRUE)>> }

\* the schedules the jobs run for
JobDefs ==
    { BackupSchedule("s1", TRUE, srv, "r1", 7, cc[1], cc[2]) :
        srv \in {{"A", "B", "C"}, {"A"}},
        cc \in {<<FALSE, "onedrive">>, <<TRUE, "onedrive">>, <<TRUE, "google_cloud">>} }

\* what the uploads of one behaviour do
UploadOutcomes == { [s \in ServerIds |-> o] : o \in {"true", "false", "raises"} }

T0 == 10 * SecondsPerDay

NoSweep == [none |-> TRUE]
Idle == [pc |-> "idle"]

InitJob ==
    /\ running = TRUE
    /\ \E d \in JobDefs :
         /\ schedules = <<d>>
         /\ added = [id \in ScheduleIds |-> IF id = d.schedule_id THEN <<d>> ELSE <<>>]
         /\ jobstore = <<d.schedule_id>>
         /\ appSchedules = <<d>>
    /\ pending_jobs = <<>>
    /\ appOps = 0
    /\ jobs = <<>>
    /\ delivered = <<>>
    /\ backup_completed_callback \in {"none", "ok", "raises"}
    /\ configServers = Registry
    /\ savePathExists \in {ServerIds, {"A", "C"}}
    /\ cloudReady \in {{}, {"onedrive"}}
    /\ srvRunning = {"A", "B"}
    /\ archiveRaises \in {{}, {"C"}}
    /\ uploadOutcome \in UploadOutcomes
    \* an upload that is never attempted has no outcome to vary
    /\ \A d \in Range(schedules) :
         (~d.enable_cloud_backup \/ d.cloud_backup_type \notin cloudReady)
            => uploadOutcome = [s \in ServerIds |-> "true"]
    /\ \A d \in Range(schedules) : ~d.enable_cloud_backup => cloudReady = {}
    /\ fs = {}
    /\ now = T0
    /\ lastSweep = NoSweep
    /\ rs = Idle
    /\ SideIdle

JobStep(j) ==
    /\ j \in DOMAIN jobs
    /\ \/ StepCheck(j)
       \/ StepArchive(j)
       \/ StepCloud(j)
       \/ StepRestart(j)
       \/ StepStatus(j)
       \/ StepCleanup(j)
       \/ StepCallback(j)
       \/ StepReturn(j)

NextJob ==
    \/ \E id \in ScheduleIds : Fire(id)
    \/ \E id \in ScheduleIds, servers \in RunNowLists : RunNow(id, servers)
    \/ \E j \in DOMAIN jobs : StepCheck(j)
    \/ \E j \in DOMAIN jobs : StepArchive(j)
    \/ \E j \in DOMAIN jobs : StepCloud(j)
    \/ \E j \in DOMAIN jobs : StepRestart(j)
    \/ \E j \in DOMAIN jobs : StepStatus(j)
    \/ \E j \in DOMAIN jobs : StepCleanup(j)
    \/ \E j \in DOMAIN jobs : StepCallback(j)
    \/ \E j \in DOMAIN jobs : StepReturn(j)

Spec == InitJob /\ [][NextJob]_vars

\* Every started job runs on its own worker, which keeps stepping.
SpecFair == Spec /\ \A j \in 1..MaxJobs : WF_vars(JobStep(j))

(***************************************************************************)
(* Claims about the job executor.                                          *)
(***************************************************************************)
\* the event ev of server sid is in the job's history
Occurs(job, ev, sid) == \E k \in DOMAIN job.trace : job.trace[k] = <<ev, sid>>

\* the server loop of the job is over
LoopDone(job) == job.pc \in {"status", "cleanup", "callback", "return", "done"}

\* the job's status has been set
StatusSet(job) == job.pc \in {"cleanup", "callback", "return", "done"}

\* the i-th result of the job is past its cloud and restart steps
Settled(job, i) == i < Len(job.server_results) \/ LoopDone(job)

\* C1: partial-failure isolation. Once a job's loop is over, it holds one
\* result per targeted enabled server, in order; the result of a server whose
\* save path is missing has success = FALSE and an empty backup_path, while
\* every other server has the outcome of its own archive step. With targets
\* [A, B, C] and only B's save path missing (and no archive error), the job
\* has 3 results, A and C succeeded, B failed, and the status is failed.
PartialFailureIsolation ==
    \A j \in DOMAIN jobs :
      LET job == jobs[j]
          targets == job.enabled_servers
          res == job.server_results
      IN LoopDone(job) =>
           /\ Len(res) = Len(targets)
           /\ \A i \in DOMAIN targets :
                /\ res[i].server_id = targets[i]
                /\ targets[i] \notin savePathExists
                     => ~res[i].success /\ res[i].backup_path = NoPath
                /\ targets[i] \in savePathExists
                     => (res[i].success <=> targets[i] \notin archiveRaises)
           /\ (/\ targets = <<"A", "B", "C">>
               /\ savePathExists = {"A", "C"}
               /\ archiveRaises = {})
                => /\ Len(res) = 3
                   /\ res[1].success /\ ~res[2].success /\ res[3].success
                   /\ StatusSet(job) => job.status = "failed"

\* C1 witness: a finished job over [A, B, C] with B's save path missing.
PartialFailureWitness ==
    \E j \in DOMAIN jobs :
        /\ jobs[j].pc = "done"
        /\ jobs[j].enabled_servers = <<"A", "B", "C">>
        /\ savePathExists = {"A", "C"}
        /\ archiveRaises = {}
        /\ jobs[j].server_results[1].success
        /\ ~jobs[j].server_results[2].success
        /\ jobs[j].server_results[3].success
        /\ jobs[j].status = "failed"

\* C2: the job returned by a run has status completed if and only if every
\* recorded result has success = TRUE, and failed otherwise, for every run
\* (zero targeted servers and a raising completion callback included).
StatusIffAllSucceeded ==
    \A j \in DOMAIN jobs :
        jobs[j].pc = "done" =>
            /\ jobs[j].status \in {"completed", "failed"}
            /\ jobs[j].status = "completed" <=> AllSucceeded(jobs[j].server_results)

\* C5: start is issued for a processed server if and only if its archive
\* step succeeded, whatever the cloud upload did (skipped, returned false
\* or raised); start is never issued before the archive succeeded.
StartIffArchived ==
    \A j \in DOMAIN jobs :
      LET job == jobs[j] IN
        \A i \in DOMAIN job.server_results :
          LET sid == job.server_results[i].server_id IN
            /\ Occurs(job, "start", sid) => Occurs(job, "archive_ok", sid)
            /\ Settled(job, i) =>
                 (Occurs(job, "start", sid) <=> Occurs(job, "archive_ok", sid))

\* C5 witness: a finished job that started a server whose upload raised.
StartAfterFailedUploadWitness ==
    \E j \in DOMAIN jobs :
        /\ jobs[j].pc = "done"
        /\ Occurs(jobs[j], "upload_raises", "A")
        /\ Occurs(jobs[j], "start", "A")
        /\ Occurs(jobs[j], "archive_missing", "B")
        /\ ~Occurs(jobs[j], "start", "B")

\* the upload of server sid was attempted by the job
UploadAttempted(job, sid) ==
    \E o \in {"true", "false", "raises"} : Occurs(job, "upload_" \o o, sid)

\* C6: an upload is attempted only for a server whose archive succeeded and
\* under a schedule with cloud backup enabled; when the backend is not
\* ready, or the upload returns false or raises, the server's result has
\* cloud_backup_success = FALSE while success stays TRUE and backup_path set.
CloudFailureIsNotFatal ==
    \A j \in DOMAIN jobs :
      LET job == jobs[j] IN
        \A i \in DOMAIN job.server_results :
          LET r == job.server_results[i]
              sid == r.server_id
          IN /\ UploadAttempted(job, sid) =>
                   /\ Occurs(job, "archive_ok", sid)
                   /\ job.schedule.enable_cloud_backup
             /\ (/\ Settled(job, i)
                 /\ Occurs(job, "archive_ok", sid)
                 /\ job.schedule.enable_cloud_backup
                 /\ \/ ~BackendReady(job.schedule)
                    \/ uploadOutcome[sid] \in {"false", "raises"})
                  => /\ ~r.cloud_backup_success
                     /\ r.success
                     /\ r.backup_path # NoPath

\* C6 witness: a finished job with a successful result whose upload raised.
CloudFailureWitness ==
    \E j \in DOMAIN jobs :
        /\ jobs[j].pc = "done"
        /\ Occurs(jobs[j], "upload_raises", "A")
        /\ jobs[j].server_results[1].success
        /\ jobs[j].server_results[1].backup_path # NoPath
        /\ ~jobs[j].server_results[1].cloud_backup_success

\* the positions of job j in the callback's log
Deliveries(j) == { k \in DOMAIN delivered : delivered[k].job_id = j }

\* C7 (safety part): with a callback registered, a returned job holds one
\* result per targeted server and was handed to the callback exactly once,
\* with all its results; no job is ever delivered twice.
DeliveredOnce ==
    \A j \in DOMAIN jobs :
        /\ Cardinality(Deliveries(j)) <= 1
        /\ (jobs[j].pc = "done" /\ backup_completed_callback # "none") =>
              /\ Cardinality(Deliveries(j)) = 1
              /\ Len(jobs[j].server_results) = Len(jobs[j].enabled_servers)
              /\ \A k \in Deliveries(j) :
                    delivered[k].server_results = jobs[j].server_results

\* C7: no job is dropped. Every job execution that starts, by a fire or a
\* run-now call, terminates whatever its servers' failures, and its
\* BackupJob with all recorded results is delivered to the registered
\* callback exactly once.
NoJobDropped ==
    /\ []DeliveredOnce
    /\ \A j \in 1..MaxJobs :
          (Len(jobs) >= j) ~> (Len(jobs) >= j /\ jobs[j].pc = "done")

\* C7 witness: a failed job that holds a successful result, returned and delivered.
NoJobDroppedWitness ==
    \E j \in DOMAIN jobs :
        /\ jobs[j].pc = "done"
        /\ jobs[j].status = "failed"
        /\ \E i \in DOMAIN jobs[j].server_results : jobs[j].server_results[i].success
        /\ \E i \in DOMAIN jobs[j].server_results : ~jobs[j].server_results[i].success
        /\ Cardinality(Deliveries(j)) = 1

\* C16: a job started for a schedule id the scheduler holds no schedule for
\* is returned with a failed status or a non-empty message, never as a
\* completed job without a message.
MissingScheduleSurfaced ==
    \A j \in DOMAIN jobs :
        (jobs[j].pc = "done" /\ get_schedule(jobs[j].schedule_id) = None)
            => (jobs[j].status = "failed" \/ jobs[j].message # "")

\* the events of the per-server steps in a job's history
ServerEvents(job) ==
    SelectSeq(job.trace, LAMBDA e : e[1] \notin {"status", "sweep", "callback"})

\* the place of a server in the job's list of servers to process
PosIn(targets, sid) == CHOOSE i \in DOMAIN targets : targets[i] = sid

ArchiveEvents == {"archive_ok", "archive_missing", "archive_error"}
UploadEvents == {"upload_true", "upload_false", "upload_raises"}

\* event b of a server may come directly after event a of the same server
StepFollows(a, b) ==
    \/ a = "check_running" /\ b = "stop"
    \/ a = "stop" /\ b = "wait"
    \/ a = "wait" /\ b \in ArchiveEvents
    \/ a = "check_stopped" /\ b \in ArchiveEvents
    \/ a = "archive_ok" /\ b \in UploadEvents \cup {"start"}
    \/ a \in UploadEvents /\ b = "start"

\* C21: within one job the per-server steps are strictly sequential. The
\* history of a job starts with the running check of its first server; each
\* server's events come in the order running check, stop (only if reported
\* running), grace wait, archive, cloud upload (optional), start; the first
\* event of the next server comes only after the last event of the previous
\* one, and the servers are taken in the order of the job's list.
StepsSequential ==
    \A j \in DOMAIN jobs :
      LET job == jobs[j]
          ev == ServerEvents(job)
      IN /\ ev # <<>> =>
               /\ ev[1][1] \in {"check_running", "check_stopped"}
               /\ ev[1][2] = job.enabled_servers[1]
         /\ \A k \in 1..(Len(ev) - 1) :
               IF ev[k][2] = ev[k + 1][2]
                 THEN StepFollows(ev[k][1], ev[k + 1][1])
                 ELSE /\ ev[k][1] \in {"archive_missing", "archive_error", "start"}
                      /\ ev[k + 1][1] \in {"check_running", "check_stopped"}
                      /\ PosIn(job.enabled_servers, ev[k + 1][2])
                            = PosIn(job.enabled_servers, ev[k][2]) + 1
         /\ \A k \in DOMAIN job.trace :
               job.trace[k][1] \in {"status", "sweep", "callback"}
                  => /\ Len(ev) = k - 1 \/ job.trace[k - 1][1] \in {"status", "sweep"}
                     /\ ev # <<>> => ev[Len(ev)][2] = job.enabled_servers[Len(job.enabled_servers)]

\* C21 witness: a finished job over [A, B, C] that went through all six
\* steps for A before the running check of B.
SixStepsWitness ==
    \E j \in DOMAIN jobs :
        /\ jobs[j].pc = "done"
        /\ jobs[j].enabled_servers = <<"A", "B", "C">>
        /\ SubSeq(jobs[j].trace, 1, 7) =
              << <<"check_running", "A">>, <<"stop", "A">>, <<"wait", "A">>,
                 <<"archive_ok", "A">>, <<"upload_true", "A">>, <<"start", "A">>,
                 <<"check_running", "B">> >>
        /\ Occurs(jobs[j], "check_stopped", "C")

\* the ids of the servers of a list that a schedule targets and that are enabled
TargetedEnabled(servers, schedule) ==
    { servers[k].server_id : k \in { i \in DOMAIN servers :
          servers[i].enabled /\ servers[i].server_id \in schedule.server_ids } }

\* the place of a server id in a list of servers
PlaceOf(servers, sid) == CHOOSE k \in DOMAIN servers : servers[k].server_id = sid

\* a returned job holds exactly one result per targeted enabled server of
\* the list it ran with, in the order of the list
OneResultPerTarget(job) ==
    LET res == job.server_results
    IN /\ { res[i].server_id : i \in DOMAIN res } = TargetedEnabled(job.servers, job.schedule)
       /\ \A i, k \in DOMAIN res :
             i < k => PlaceOf(job.servers, res[i].server_id)
                        < PlaceOf(job.servers, res[k].server_id)

\* C22 as stated: a returned job holds exactly one result per targeted
\* enabled server, in registry order, and none for servers that are disabled
\* or not targeted; when a step after the archive (the cloud upload)
\* raises, that server's single result is marked failed with the error
\* message.
OneResultFailedWhenLaterStepRaises ==
    \A j \in DOMAIN jobs :
        jobs[j].pc = "done" =>
            /\ OneResultPerTarget(jobs[j])
            /\ \A i \in DOMAIN jobs[j].server_results :
                  LET r == jobs[j].server_results[i]
                  IN Occurs(jobs[j], "upload_raises", r.server_id)
                        => ~r.success /\ r.error_message # ""

\* C22, amended: a returned job holds exactly one result per targeted
\* enabled server, in registry order, and none for servers that are disabled
\* or not targeted; when the cloud upload raises, that server's single
\* result stays successful with its backup_path, has cloud_backup_success
\* FALSE and no error message.
OneResultKeptWhenUploadRaises ==
    \A j \in DOMAIN jobs :
        jobs[j].pc = "done" =>
            /\ OneResultPerTarget(jobs[j])
            /\ \A i \in DOMAIN jobs[j].server_results :
                  LET r == jobs[j].server_results[i]
                  IN Occurs(jobs[j], "upload_raises", r.server_id)
                        => /\ r.success
                           /\ r.backup_path # NoPath
                           /\ ~r.cloud_backup_success
                           /\ r.error_message = ""

\* C22 witness: a run-now job over a list with B disabled, under a schedule
\* targeting A, B and C, whose uploads raised: results for A and C only.
DisabledSkippedWitness ==
    \E j \in DOMAIN jobs :
        /\ jobs[j].pc = "done"
        /\ jobs[j].schedule.server_ids = {"A", "B", "C"}
        /\ \E k \in DOMAIN jobs[j].servers :
              jobs[j].servers[k].server_id = "B" /\ ~jobs[j].servers[k].enabled
        /\ Occurs(jobs[j], "upload_raises", "A")
        /\ Len(jobs[j].server_results) = 2
        /\ jobs[j].server_results[1].server_id = "A"
        /\ jobs[j].server_results[1].success
        /\ jobs[j].server_results[2].server_id = "C"

\* the job is past its retention sweep
PastSweep(job) == job.pc \in {"callback", "return", "done"}

\* C23: in every job the retention sweep is invoked exactly once, with the
\* backup_path and retention_days of the job's schedule, after the last
\* server's result has been recorded and the status set, and before the
\* completion callback is called; this holds for failed jobs as for
\* completed ones.
SweptOnceBeforeCallback ==
    \A j \in DOMAIN jobs :
      LET job == jobs[j] IN
        /\ get_schedule(job.schedule_id) # None => job.schedule = get_schedule(job.schedule_id)
        /\ ~PastSweep(job) => (job.sweeps = <<>> /\ Deliveries(j) = {})
        /\ PastSweep(job) =>
              /\ Len(job.sweeps) = 1
              /\ job.sweeps[1].root = job.schedule.backup_path
              /\ job.sweeps[1].retention_days = job.schedule.retention_days
              /\ Len(job.server_results) = Len(job.enabled_servers)
              /\ \E k \in DOMAIN job.trace :
                    /\ job.trace[k] = <<"status", "">>
                    /\ job.trace[k + 1] = <<"sweep", job.schedule.backup_path>>
                    /\ \A i \in DOMAIN job.trace :
                          job.trace[i][1] = "callback" => i = k + 2
        /\ (job.pc = "done" /\ backup_completed_callback # "none")
              => Occurs(job, "callback", "")

\* C23 witness: a job whose status was set to failed, swept and delivered.
FailedJobSweptWitness ==
    \E j \in DOMAIN jobs :
        /\ jobs[j].pc = "done"
        /\ backup_completed_callback = "ok"
        /\ jobs[j].status = "failed"
        /\ Len(jobs[j].sweeps) = 1
        /\ jobs[j].sweeps[1].root = "r1"
        /\ jobs[j].sweeps[1].retention_days = 7
        /\ Cardinality(Deliveries(j)) = 1

\* C25: once a BackupJob has been delivered to the completion callback none
\* of its fields changes: the job the callback received equals, field for
\* field, the job returned to the caller.
DeliveredJobUnchanged ==
    \A j \in DOMAIN jobs :
        \A k \in Deliveries(j) :
            jobs[j].pc \in {"return", "done"} => delivered[k] = BackupJob(jobs[j])

\* C27: a job leaves each server's running state as it found it. For every
\* server the job is through with, start was issued if and only if stop was
\* issued: a server that was not running is not started, and a server the
\* job stopped has been started again.
StartIffStopped ==
    \A j \in DOMAIN jobs :
        \A i \in DOMAIN jobs[j].server_results :
            LET sid == jobs[j].server_results[i].server_id
            IN Settled(jobs[j], i) =>
                 (Occurs(jobs[j], "start", sid) <=> Occurs(jobs[j], "stop", sid))

\* C28: every retention sweep of a job targets the backup_path of the
\* schedule stored under the job's schedule id; a job for a schedule id the
\* scheduler does not know sweeps no path (the empty default path included),
\* stops no server and creates no archive.
SweepsStoredRootOnly ==
    \A j \in DOMAIN jobs :
      LET job == jobs[j]
          stored == get_schedule(job.schedule_id)
      IN IF stored = None
           THEN /\ job.sweeps = <<>>
                /\ ServerEvents(job) = <<>>
                /\ job.server_results = <<>>
           ELSE \A k \in DOMAIN job.sweeps : job.sweeps[k].root = stored.backup_path

(***************************************************************************)
(* SpecSched: the scheduler's operations in any order, with fires and      *)
(* run-now calls starting jobs in a fixed, healthy environment.            *)
(***************************************************************************)
HealthyEnv ==
    /\ backup_completed_callback = "ok"
    /\ configServers = Registry
    /\ savePathExists = ServerIds
    /\ cloudReady = {}
    /\ srvRunning = {}
    /\ archiveRaises = {}
    /\ uploadOutcome = [s \in ServerIds |-> "true"]
    /\ fs = {}
    /\ now = T0
    /\ lastSweep = NoSweep
    /\ rs = Idle
    /\ SideIdle

\* SchedulerService.__init__
NewScheduler ==
    [running |-> FALSE, schedules |-> <<>>, jobstore |-> <<>>,
     pending_jobs |-> <<>>, added |-> [id \in ScheduleIds |-> <<>>]]

InitSched ==
    /\ running = NewScheduler.running
    /\ schedules = NewScheduler.schedules
    /\ jobstore = NewScheduler.jobstore
    /\ pending_jobs = NewScheduler.pending_jobs
    /\ added = NewScheduler.added
    /\ appSchedules = <<>>
    /\ appOps = 0
    /\ jobs = <<>>
    /\ delivered = <<>>
    /\ HealthyEnv

NextSched ==
    \/ start
    \/ stop
    \/ \E s \in ScheduleDefs : add_schedule(s)
    \/ \E id \in ScheduleIds : remove_schedule(id)
    \/ \E id \in ScheduleIds : Fire(id)
    \/ \E id \in ScheduleIds, servers \in RunNowLists : RunNow(id, servers)
    \/ \E j \in DOMAIN jobs : StepCheck(j)
    \/ \E j \in DOMAIN jobs : StepArchive(j)
    \/ \E j \in DOMAIN jobs : StepCloud(j)
    \/ \E j \in DOMAIN jobs : StepRestart(j)
    \/ \E j \in DOMAIN jobs : StepStatus(j)
    \/ \E j \in DOMAIN jobs : StepCleanup(j)
    \/ \E j \in DOMAIN jobs : StepCallback(j)
    \/ \E j \in DOMAIN jobs : StepReturn(j)

SpecSched == InitSched /\ [][NextSched]_vars

\* add_schedule was called at least twice for id since its last remove, the
\* last two times with an enabled schedule
TwiceAdded(id) ==
    /\ Len(added[id]) >= 2
    /\ added[id][Len(added[id])].enabled
    /\ added[id][Len(added[id]) - 1].enabled

\* this step starts a job for id
Starts(id) ==
    /\ Len(jobs') = Len(jobs) + 1
    /\ jobs'[Len(jobs')].schedule_id = id

\* C3: idempotent trigger registration. After add_schedule was called twice
\* with the same schedule id (both enabled), the store never holds more than
\* one trigger for the id, holds exactly one right after the second call on
\* a running scheduler, and every later fire or run-now for the id executes
\* with the second (latest) definition.
LatestDefinitionWins ==
    /\ [](\A id \in ScheduleIds : Count(jobstore, id) <= 1)
    /\ [][\A id \in ScheduleIds :
            (TwiceAdded(id)' /\ added'[id] # added[id] /\ running)
                => Count(jobstore', id) = 1]_vars
    /\ [][\A id \in ScheduleIds :
            (Starts(id) /\ TwiceAdded(id))
                => jobs'[Len(jobs')].schedule = added[id][Len(added[id])]]_vars

(***************************************************************************)
(* SpecStop: a started scheduler with one armed schedule is stopped and    *)
(* started while its trigger fires, run-now calls arrive and jobs run.     *)
(***************************************************************************)
InitStop ==
    /\ \E d \in {s \in ScheduleDefs : s.enabled} :
         LET st == WithSchedule(Started(NewScheduler), d)
         IN /\ running = st.running
            /\ schedules = st.schedules
            /\ jobstore = st.jobstore
            /\ pending_jobs = st.pending_jobs
            /\ added = st.added
    /\ appSchedules = <<>>
    /\ appOps = 0
    /\ jobs = <<>>
    /\ delivered = <<>>
    /\ HealthyEnv

NextStop ==
    \/ start
    \/ stop
    \/ \E id \in ScheduleIds : Fire(id)
    \/ \E id \in ScheduleIds, servers \in RunNowLists : RunNow(id, servers)
    \/ \E j \in DOMAIN jobs : JobStep(j)

SpecStop ==
    /\ InitStop
    /\ [][NextStop]_vars
    /\ \A j \in 1..MaxJobs : WF_vars(JobStep(j))

\* this step starts a job from a trigger
FireStarts ==
    /\ Len(jobs') = Len(jobs) + 1
    /\ jobs'[Len(jobs')].via = "fire"

\* C13: after stop() no trigger starts a job until start() is called again;
\* a job in flight when stop() is called runs to completion and is
\* delivered; start() on a running scheduler and stop() on a stopped one
\* change nothing.
StopHaltsTriggersOnly ==
    /\ [][FireStarts => running]_vars
    /\ [][(stop /\ running) => (~running' /\ jobs' = jobs)]_vars
    /\ [][(start /\ running) => UNCHANGED vars]_vars
    /\ [][(stop /\ ~running) => UNCHANGED vars]_vars
    /\ \A j \in 1..MaxJobs :
          (Len(jobs) >= j) ~>
             (Len(jobs) >= j /\ jobs[j].pc = "done" /\ Cardinality(Deliveries(j)) = 1)

\* C13 witness: the scheduler is stopped while a job started by its trigger
\* is in flight.
StoppedInFlightWitness ==
    /\ ~running
    /\ \E j \in DOMAIN jobs :
          /\ jobs[j].via = "fire"
          /\ jobs[j].pc \notin {"return", "done"}
          /\ Deliveries(j) = {}

\* the schedule of the latest add_schedule call for id
LastAdded(id) == added[id][Len(added[id])]

\* this step is a call of add_schedule with a disabled schedule for id
AddsDisabled(id) ==
    /\ Len(added'[id]) = Len(added[id]) + 1
    /\ ~LastAdded(id)'.enabled

\* C12: after add_schedule(s) with s.enabled false no trigger is armed for
\* s.schedule_id, also when an enabled schedule with the same id was added
\* earlier, and the schedule is stored so that a lookup for the id finds it.
DisabledNotArmed ==
    [][\A id \in ScheduleIds :
          AddsDisabled(id) =>
             /\ id \notin Range(jobstore')
             /\ id \notin Range(pending_jobs')
             /\ FirstSchedule(schedules', id) = LastAdded(id)']_vars

\* the stored schedules and triggers of the ids other than id
OthersOf(ss, store, pending, id) ==
    [schedules |-> WithoutSchedule(ss, id),
     jobstore |-> Without(store, id),
     pending_jobs |-> Without(pending, id)]

\* C14: remove_schedule(id) leaves no trigger, armed or waiting for the
\* scheduler's start, and no stored schedule for id, also when id is
\* unknown, and leaves every other schedule's definition and trigger as
\* they were.
RemoveLeavesNothing ==
    [][\A id \in ScheduleIds :
          remove_schedule(id) =>
             /\ id \notin Range(jobstore')
             /\ id \notin Range(pending_jobs')
             /\ FirstSchedule(schedules', id) = None
             /\ OthersOf(schedules', jobstore', pending_jobs', id)
                   = OthersOf(schedules, jobstore, pending_jobs, id)
             /\ running' = running]_vars

(***************************************************************************)
(* SpecApp: the main window's schedule operations (add, edit, delete and   *)
(* run now) over the persisted config and the scheduler.                   *)
(***************************************************************************)
\* main_window.py lines 464-466: add_schedule for every enabled schedule
RECURSIVE WithEnabled(_, _)
WithEnabled(st, ss) ==
    IF ss = <<>> THEN st
    ELSE WithEnabled(IF Head(ss).enabled THEN WithSchedule(st, Head(ss)) ELSE st,
                     Tail(ss))

\* MainWindow._save_and_refresh_schedules, lines 461-466: stop, start, re-add
Refreshed(st, ss) == WithEnabled(Started(Stopped(st)), ss)

AppIds == { appSchedules[i].schedule_id : i \in DOMAIN appSchedules }

AppFrame ==
    UNCHANGED <<jobVars, envVars, fsVars, rs, sideVars>>

\* MainWindow.add_schedule: the dialog returns a schedule with a fresh id
AppAdd(s) ==
    /\ appOps < MaxAppOps
    /\ s.schedule_id \notin AppIds
    /\ appSchedules' = Append(appSchedules, s)
    /\ appOps' = appOps + 1
    /\ SetSched(Refreshed(SchedState, appSchedules'))
    /\ AppFrame

\* MainWindow.edit_schedule: the dialog returns an edited copy, same id
AppEdit(i, s) ==
    /\ appOps < MaxAppOps
    /\ s.schedule_id = appSchedules[i].schedule_id
    /\ appSchedules' = [appSchedules EXCEPT ![i] = s]
    /\ appOps' = appOps + 1
    /\ SetSched(Refreshed(SchedState, appSchedules'))
    /\ AppFrame

\* MainWindow.delete_schedule
AppDelete(id) ==
    /\ appOps < MaxAppOps
    /\ id \in AppIds
    /\ appSchedules' = WithoutSchedule(appSchedules, id)
    /\ appOps' = appOps + 1
    /\ SetSched(Removed(SchedState, id))
    /\ AppFrame

\* MainWindow.run_backup_now: the selected schedule, with the window's servers
AppRunNow(id) ==
    /\ id \in AppIds
    /\ RunNow(id, configServers)

\* MainWindow.__init__, lines 60-69: the schedules of the config are loaded,
\* the scheduler is started and the enabled schedules are added
InitApp ==
    /\ appSchedules \in {<<>>} \cup { <<s>> : s \in ScheduleDefs }
    /\ LET st == WithEnabled(Started(NewScheduler), appSchedules)
       IN /\ running = st.running
          /\ schedules = st.schedules
          /\ jobstore = st.jobstore
          /\ pending_jobs = st.pending_jobs
          /\ added = st.added
    /\ appOps = 0
    /\ jobs = <<>>
    /\ delivered = <<>>
    /\ HealthyEnv

NextApp ==
    \/ \E s \in ScheduleDefs : AppAdd(s)
    \/ \E i \in DOMAIN appSchedules, s \in ScheduleDefs : AppEdit(i, s)
    \/ \E id \in ScheduleIds : AppDelete(id)
    \/ \E id \in ScheduleIds : AppRunNow(id)
    \/ \E id \in ScheduleIds : Fire(id)
    \/ \E j \in DOMAIN jobs : StepCheck(j)
    \/ \E j \in DOMAIN jobs : StepArchive(j)
    \/ \E j \in DOMAIN jobs : StepCloud(j)
    \/ \E j \in DOMAIN jobs : StepRestart(j)
    \/ \E j \in DOMAIN jobs : StepStatus(j)
    \/ \E j \in DOMAIN jobs : StepCleanup(j)
    \/ \E j \in DOMAIN jobs : StepCallback(j)
    \/ \E j \in DOMAIN jobs : StepReturn(j)

SpecApp == InitApp /\ [][NextApp]_vars

\* C4: after any sequence of add, edit and delete through the application,
\* the scheduler is in sync with the config: a trigger is armed for a
\* schedule id if and only if the config holds an enabled schedule with that
\* id, and the definition the scheduler uses for the id is the config's.
SchedulerInSync ==
    \A id \in ScheduleIds :
        /\ (running /\ id \in Range(jobstore))
              <=> (\E i \in DOMAIN appSchedules :
                      appSchedules[i].schedule_id = id /\ appSchedules[i].enabled)
        /\ \A i \in DOMAIN appSchedules :
              (appSchedules[i].schedule_id = id /\ appSchedules[i].enabled)
                  => get_schedule(id) = appSchedules[i]

\* this step starts a run-now job for id
RunNowStarts(id) ==
    /\ Len(jobs') = Len(jobs) + 1
    /\ jobs'[Len(jobs')].via = "runNow"
    /\ jobs'[Len(jobs')].schedule_id = id

\* C15: for every schedule of the application config, enabled or not, a
\* run-now executes with the config's current definition of that schedule
\* and with the server list passed in, selecting the servers as a fire does.
RunNowUsesConfigDefinition ==
    [][\A id \in AppIds :
          RunNowStarts(id) =>
             LET job == jobs'[Len(jobs')]
             IN /\ job.schedule = FirstSchedule(appSchedules, id)
                /\ job.servers = configServers
                /\ job.enabled_servers
                     = EnabledServers(configServers, FirstSchedule(appSchedules, id))]_vars

(***************************************************************************)
(* SpecSweep: retention sweeps over a backup root whose snapshot           *)
(* directories have ages around the cutoff, as the clock advances.         *)
(***************************************************************************)
MaxRetention == 8      \* largest retention_days swept with
MaxAdvance == 1        \* days the clock advances in one behaviour

\* ages of the entries at the start, in seconds
Ages == { 6 * SecondsPerDay, 7 * SecondsPerDay - 1, 7 * SecondsPerDay,
          7 * SecondsPerDay + 1, 8 * SecondsPerDay }

\* an entry two levels below a backup root
Entry(root, sid, name, mtime, isDir) ==
    [root |-> root, server |-> sid, name |-> name, mtime |-> mtime, isDir |-> isDir]

InitSweep ==
    /\ now = T0
    /\ \E a1 \in Ages, a2 \in Ages :
         fs = { Entry("r1", "A", 1, T0 - a1, TRUE),
                Entry("r1", "A", 2, T0 - a2, TRUE),
                Entry("r1", "B", 3, T0 - 8 * SecondsPerDay, TRUE),
                Entry("r1", "B", 4, T0 - 8 * SecondsPerDay, FALSE),
                Entry("r2", "A", 5, T0 - 8 * SecondsPerDay, TRUE) }
    /\ lastSweep = NoSweep
    /\ rs = Idle
    /\ SideIdle
    /\ running = NewScheduler.running
    /\ schedules = NewScheduler.schedules
    /\ jobstore = NewScheduler.jobstore
    /\ pending_jobs = NewScheduler.pending_jobs
    /\ added = NewScheduler.added
    /\ appSchedules = <<>>
    /\ appOps = 0
    /\ jobs = <<>>
    /\ delivered = <<>>
    /\ backup_completed_callback = "ok"
    /\ configServers = Registry
    /\ savePathExists = ServerIds
    /\ cloudReady = {}
    /\ srvRunning = {}
    /\ archiveRaises = {}
    /\ uploadOutcome = [s \in ServerIds |-> "true"]

SweepFrame ==
    UNCHANGED <<schedVars, appVars, jobVars, envVars, rs, sideVars>>

\* BackupService.cleanup_old_backups called on a root
Sweep(root, retention_days) ==
    /\ cleanup_old_backups(root, retention_days)
    /\ UNCHANGED now
    /\ SweepFrame

\* time passes: a second, then the rest of a day
Tick ==
    /\ now - T0 < MaxAdvance * SecondsPerDay
    /\ now' = now + (IF (now - T0) % SecondsPerDay = 0 THEN 1 ELSE SecondsPerDay - 1)
    /\ UNCHANGED <<fs, lastSweep>>
    /\ SweepFrame

NextSweep ==
    \/ \E root \in {"r1", "r2", "r3"}, rd \in 1..MaxRetention : Sweep(root, rd)
    \/ Tick

SpecSweep == InitSweep /\ [][NextSweep]_vars

\* the snapshot directories the last sweep looked at
Swept ==
    { e \in lastSweep.before : e.root = lastSweep.root /\ e.isDir }

\* the entry's mtime is strictly before the last sweep's cutoff
StrictlyOlder(e) ==
    e.mtime < lastSweep.at - lastSweep.retention_days * SecondsPerDay

\* the entry's age at the last sweep
AgeAtSweep(e) == lastSweep.at - e.mtime

\* C8 as stated: a sweep deletes a snapshot directory if and only if its
\* mtime is strictly older than now - retention_days * 24h.
SweepDeletesIffOlder ==
    lastSweep # NoSweep =>
        \A e \in Swept : (e \notin fs) <=> StrictlyOlder(e)

\* C8, amended: a sweep deletes a snapshot directory if and only if its
\* mtime is strictly older than now - retention_days * 24h and its removal
\* raises no error; it deletes nothing else (no file, no directory of
\* another root). With retention_days = 7, directories aged 6 and 7 days are
\* kept and one aged 8 days is deleted unless its removal fails.
SweepDeletesIffOlderAndRemovable ==
    lastSweep # NoSweep =>
        /\ \A e \in Swept :
              (e \notin fs) <=> (StrictlyOlder(e) /\ e \notin lastSweep.failed)
        /\ \A e \in lastSweep.before \ Swept : e \in fs
        /\ lastSweep.retention_days = 7 =>
              \A e \in Swept :
                 /\ AgeAtSweep(e) \in {6 * SecondsPerDay, 7 * SecondsPerDay} => e \in fs
                 /\ (AgeAtSweep(e) = 8 * SecondsPerDay /\ e \notin lastSweep.failed)
                       => e \notin fs

\* C8 witness: a sweep with retention_days = 7 over directories aged 6, 7
\* and 8 days removed the 8-day one alone.
RetentionBoundaryWitness ==
    /\ lastSweep # NoSweep
    /\ lastSweep.retention_days = 7
    /\ { AgeAtSweep(e) : e \in Swept }
          = {6 * SecondsPerDay, 7 * SecondsPerDay, 8 * SecondsPerDay}
    /\ \A e \in Swept : (e \notin fs) <=> AgeAtSweep(e) = 8 * SecondsPerDay

(***************************************************************************)
(* SpecRestore: RestoreService.restore_backup, one step per statement      *)
(* group, over archives and destinations drawn at the start.               *)
(***************************************************************************)
MaxEntries == 2        \* longest archive name list

\* line 173
skip_extensions ==
    { <<".", "e", "x", "e">>, <<".", "d", "l", "l">>,
      <<".", "b", "a", "t">>, <<".", "c", "m", "d">> }

\* str.lower on the letters the entry names use
LowerChar(c) ==
    CASE c = "B" -> "b"
      [] c = "D" -> "d"
      [] c = "L" -> "l"
      [] c = "M" -> "m"
      [] OTHER -> c

Lower(s) == [k \in 1..Len(s) |-> LowerChar(s[k])]

\* str.endswith
EndsWith(s, ext) ==
    /\ Len(s) >= Len(ext)
    /\ SubSeq(s, Len(s) - Len(ext) + 1, Len(s)) = ext

\* the skip test without str.lower: the case of the name matters
IsSkippedCaseSensitive(file_name) ==
    \E ext \in skip_extensions : EndsWith(file_name, ext)

\* line 182
IsSkipped(file_name) ==
    \E ext \in skip_extensions : EndsWith(Lower(file_name), ext)

SaveDat == <<"s", "a", "v", "e", ".", "d", "a", "t">>
ServerExe == <<"s", "e", "r", "v", "e", "r", ".", "e", "x", "e">>
ModDll == <<"M", ".", "D", "L", "L">>
RunBat == <<"r", "u", "n", ".", "B", "a", "t">>
Exe == <<"e", "x", "e">>

EntryNames == {SaveDat, ServerExe, ModDll, RunBat, Exe}

\* zip_ref.namelist() of the archives restored from
NameLists ==
    UNION { [1..n -> EntryNames] : n \in 0..MaxEntries }

\* the state of one call of restore_backup
RestoreCall(archive, dest) ==
    [pc |-> "idle", archive |-> archive, dest |-> dest, dest0 |-> dest,
     create_backup |-> FALSE, safety |-> "none", i |-> 1,
     extracted_count |-> 0, skipped_count |-> 0, error_count |-> 0,
     written |-> {}, success |-> FALSE, message |-> ""]

InitRestore ==
    /\ \E state \in {"missing", "ok", "corrupt", "unreadable"},
          file_list \in NameLists,
          kind \in {"missing", "dir", "file"},
          files \in {{}, {SaveDat}, {ServerExe}} :
         /\ kind # "dir" => files = {}
         /\ rs = RestoreCall([state |-> state, file_list |-> file_list],
                             [kind |-> kind, files |-> files])
    /\ SideIdle
    /\ fs = {}
    /\ now = T0
    /\ lastSweep = NoSweep
    /\ running = NewScheduler.running
    /\ schedules = NewScheduler.schedules
    /\ jobstore = NewScheduler.jobstore
    /\ pending_jobs = NewScheduler.pending_jobs
    /\ added = NewScheduler.added
    /\ appSchedules = <<>>
    /\ appOps = 0
    /\ jobs = <<>>
    /\ delivered = <<>>
    /\ backup_completed_callback = "ok"
    /\ configServers = Registry
    /\ savePathExists = ServerIds
    /\ cloudReady = {}
    /\ srvRunning = {}
    /\ archiveRaises = {}
    /\ uploadOutcome = [s \in ServerIds |-> "true"]

RestoreFrame ==
    UNCHANGED <<schedVars, appVars, jobVars, envVars, fsVars, sideVars>>

\* return False, message
RestoreFailed(r, message) ==
    [r EXCEPT !.pc = "done", !.success = FALSE, !.message = message]

\* lines 146-157: the validations and the decision to take a safety copy
RestoreBegin(create_backup) ==
    /\ rs.pc = "idle"
    /\ LET r == [rs EXCEPT !.create_backup = create_backup]
       IN rs' = IF r.archive.state = "missing"
                   THEN RestoreFailed(r, "Backup file not found")
                ELSE IF r.dest.kind = "missing"
                   THEN RestoreFailed(r, "Destination path does not exist")
                ELSE IF create_backup /\ r.dest.kind = "file"
                   THEN RestoreFailed(r, "Restore failed")      \* iterdir raises
                ELSE IF create_backup /\ r.dest.files # {}
                   THEN [r EXCEPT !.pc = "safety"]
                ELSE [r EXCEPT !.pc = "open"]
    /\ RestoreFrame

\* a failed safety copy does not stop the restore
SafetyCopyFailureIgnored(r) ==
    [r EXCEPT !.pc = "open", !.safety = "partial"]

\* lines 163-164
SafetyCopyFailed(r) ==
    RestoreFailed([r EXCEPT !.safety = "partial"],
                  "Failed to create backup of existing files")

\* lines 158-164: shutil.copytree to the sibling directory
RestoreSafetyCopy ==
    /\ rs.pc = "safety"
    /\ \/ rs' = [rs EXCEPT !.pc = "open", !.safety = "complete"]
       \/ rs' = SafetyCopyFailed(rs)
    /\ RestoreFrame

\* lines 168-177 and 208-211: opening the archive
RestoreOpen ==
    /\ rs.pc = "open"
    /\ rs' = IF rs.archive.state = "corrupt"
                THEN RestoreFailed(rs, "Backup file is corrupted or invalid")
             ELSE IF rs.archive.state = "unreadable"
                THEN RestoreFailed(rs, "Failed to extract backup")
             ELSE [rs EXCEPT !.pc = "extract"]
    /\ RestoreFrame

\* the ways zip_ref.extract can end for one entry
ExtractOutcomes(r) ==
    IF r.dest.kind = "dir" THEN {"ok", "PermissionError", "Exception"}
    ELSE {"PermissionError", "Exception"}

\* an extraction loop that gives up at the first entry that raises
AfterExtractAbortOnError(r, file_name, outcome) ==
    CASE outcome = "ok" ->
           [r EXCEPT !.extracted_count = @ + 1,
                     !.dest.files = @ \cup {file_name},
                     !.written = @ \cup {file_name}]
      [] outcome = "PermissionError" ->
           [r EXCEPT !.skipped_count = @ + 1]
      [] OTHER ->
           RestoreFailed(r, "Failed to extract backup")

\* lines 186-195: zip_ref.extract of one entry and the two handlers
AfterExtract(r, file_name, outcome) ==
    CASE outcome = "ok" ->
           [r EXCEPT !.extracted_count = @ + 1,
                     !.dest.files = @ \cup {file_name},
                     !.written = @ \cup {file_name}]
      [] outcome = "PermissionError" ->
           [r EXCEPT !.skipped_count = @ + 1]
      [] OTHER ->
           [r EXCEPT !.error_count = @ + 1]

\* lines 180-195: one iteration of the extraction loop
RestoreExtract ==
    /\ rs.pc = "extract"
    /\ rs.i <= Len(rs.archive.file_list)
    /\ LET file_name == rs.archive.file_list[rs.i]
           r == [rs EXCEPT !.i = @ + 1]
       IN IF IsSkipped(file_name)
             THEN rs' = [r EXCEPT !.skipped_count = @ + 1]
          ELSE \E outcome \in ExtractOutcomes(rs) :
                 rs' = AfterExtract(r, file_name, outcome)
    /\ RestoreFrame

\* success although nothing was extracted, as long as nothing failed
RestoreSucceededIfNoError(r) == r.error_count = 0

\* line 197
RestoreSucceeded(r) == r.extracted_count > 0

\* lines 197-206
RestoreReturn ==
    /\ rs.pc = "extract"
    /\ rs.i > Len(rs.archive.file_list)
    /\ rs' = IF RestoreSucceeded(rs)
                THEN [rs EXCEPT !.pc = "done", !.success = TRUE,
                                !.message = "Successfully restored"]
             ELSE RestoreFailed(rs, "No files were extracted from the backup")
    /\ RestoreFrame

NextRestore ==
    \/ \E create_backup \in BOOLEAN : RestoreBegin(create_backup)
    \/ RestoreSafetyCopy
    \/ RestoreOpen
    \/ RestoreExtract
    \/ RestoreReturn

SpecRestore == InitRestore /\ [][NextRestore]_vars

\* what a restore needs before it may write into the destination
RestoreMayWrite ==
    /\ rs.archive.state # "missing"
    /\ rs.dest.kind # "missing"
    /\ (rs.create_backup /\ rs.dest0.files # {}) => rs.safety = "complete"

\* C9: a restore writes nothing into the destination unless the snapshot
\* file exists, the destination exists and, when a safety copy is asked for
\* and the destination is non-empty, the safety copy has completed; when
\* one of these fails, the restore returns failure and the destination is
\* as it was.
RestoreWritesOnlyWhenSafe ==
    rs.pc # "idle" =>
        /\ (rs.written # {} \/ rs.dest # rs.dest0) => RestoreMayWrite
        /\ (rs.pc = "done" /\ ~RestoreMayWrite) =>
              (~rs.success /\ rs.written = {} /\ rs.dest = rs.dest0)

\* C9 witness: the safety copy of a non-empty destination failed, the
\* archive had an entry to extract, and the restore ended in failure.
SafetyCopyFailedWitness ==
    /\ rs.pc = "done"
    /\ rs.create_backup
    /\ rs.dest0.files # {}
    /\ rs.safety = "partial"
    /\ rs.archive.state = "ok"
    /\ \E k \in DOMAIN rs.archive.file_list : ~IsSkipped(rs.archive.file_list[k])
    /\ ~rs.success

\* the extraction loop of the restore ran to its end
ExtractionRan ==
    /\ rs.pc = "done"
    /\ rs.i > Len(rs.archive.file_list)

\* every entry of the archive is excluded by the skip policy
AllExcluded ==
    /\ rs.archive.file_list # <<>>
    /\ \A k \in DOMAIN rs.archive.file_list : IsSkipped(rs.archive.file_list[k])

\* C10: a restore returns success if and only if at least one archive
\* entry was extracted; an archive whose entries are all excluded by the
\* skip policy gives extracted_count = 0 and failure though no entry erred.
SuccessIffExtracted ==
    rs.pc = "done" =>
        /\ rs.success <=> rs.extracted_count >= 1
        /\ rs.extracted_count >= 1 <=> rs.written # {}
        /\ (ExtractionRan /\ AllExcluded) =>
              (rs.extracted_count = 0 /\ rs.error_count = 0 /\ ~rs.success)

\* C10 witness: an archive of excluded entries only was restored from, no
\* entry erred, and the restore failed.
AllExcludedWitness ==
    /\ ExtractionRan
    /\ AllExcluded
    /\ rs.error_count = 0
    /\ rs.skipped_count = Len(rs.archive.file_list)
    /\ ~rs.success

\* the entry names that end, in any letter case, in .exe, .dll, .bat or .cmd
ExcludedNames == {ServerExe, ModDll, RunBat}

\* the entries the extraction loop has been through
Processed == SubSeq(rs.archive.file_list, 1, rs.i - 1)

\* how many of the entries the loop has been through are excluded
ExcludedSeen ==
    Cardinality({k \in DOMAIN Processed : Processed[k] \in ExcludedNames})

\* C11: no archive entry whose name ends, in any letter case, in .exe, .dll,
\* .bat or .cmd is written to the destination, and each one is counted as
\* skipped; restoring save.dat and server.exe into an empty directory gives
\* extracted_count = 1, skipped_count = 1 and no server.exe in the
\* destination.
ExcludedNeverWritten ==
    rs.pc \in {"extract", "done"} =>
        /\ rs.written \cap ExcludedNames = {}
        /\ rs.dest.files \cap ExcludedNames = rs.dest0.files \cap ExcludedNames
        /\ rs.archive.state = "ok" /\ rs.pc = "extract" =>
              /\ rs.skipped_count >= ExcludedSeen
              /\ rs.extracted_count + rs.skipped_count + rs.error_count = rs.i - 1
              /\ rs.extracted_count <= (rs.i - 1) - ExcludedSeen
        /\ (/\ rs.pc = "done"
            /\ rs.success
            /\ Range(rs.archive.file_list) = {SaveDat, ServerExe}
            /\ Len(rs.archive.file_list) = 2
            /\ rs.dest0.files = {})
              => (/\ rs.extracted_count = 1
                  /\ rs.skipped_count = 1
                  /\ rs.dest.files = {SaveDat})

\* C11 witness: save.dat and server.exe were restored into an empty
\* directory: one entry extracted, one skipped, no server.exe written.
SkipPolicyWitness ==
    /\ rs.pc = "done"
    /\ rs.success
    /\ rs.archive.file_list = <<SaveDat, ServerExe>>
    /\ rs.dest0.kind = "dir"
    /\ rs.dest0.files = {}
    /\ rs.extracted_count = 1
    /\ rs.skipped_count = 1
    /\ ServerExe \notin rs.dest.files

\* the three counters of the extraction loop, added up
Counted(r) == r.extracted_count + r.skipped_count + r.error_count

\* the restore returned from the end of the extraction loop
ReturnedAfterLoop ==
    /\ rs.pc = "done"
    /\ rs.message \in {"Successfully restored", "No files were extracted from the backup"}

\* C24: a per-entry extraction failure (permission or I/O) never aborts a
\* restore. While the loop runs, each entry gone through is counted exactly
\* once; a step of the loop, whatever the entry's outcome, goes on to the
\* next entry; the restore returns from the loop only after the last entry,
\* and then extracted + skipped + error equals the number of entries.
ExtractionNeverAborts ==
    /\ [](rs.pc = "extract" =>
            /\ rs.i <= Len(rs.archive.file_list) + 1
            /\ Counted(rs) = rs.i - 1)
    /\ [](ReturnedAfterLoop =>
            /\ rs.i = Len(rs.archive.file_list) + 1
            /\ Counted(rs) = Len(rs.archive.file_list))
    /\ [][(rs.pc = "extract" /\ rs.i <= Len(rs.archive.file_list))
            => /\ rs'.pc = "extract"
               /\ rs'.i = rs.i + 1
               /\ Counted(rs') = Counted(rs) + 1
               /\ rs'.extracted_count >= rs.extracted_count
               /\ rs'.skipped_count >= rs.skipped_count
               /\ rs'.error_count >= rs.error_count]_vars
    /\ [][(rs.pc = "extract" /\ rs'.pc = "done") => ReturnedAfterLoop']_vars

\* C24 witness: the first entry failed to extract, the second was still
\* gone through, and the restore returned with both counted.
FailedEntryCountedWitness ==
    /\ ReturnedAfterLoop
    /\ rs.archive.file_list = <<SaveDat, ServerExe>>
    /\ rs.error_count = 1
    /\ rs.skipped_count = 1
    /\ rs.extracted_count = 0

(***************************************************************************)
(* SpecWeekly: add_schedule builds the trigger of a weekly schedule, and   *)
(* the days of a week go by.                                               *)
(***************************************************************************)
MaxWeekday == 6        \* the cron trigger's day_of_week runs 0 (mon) .. 6 (sun)

\* BackupSchedule.days_of_week: lists over 0 = Monday .. 6 = Sunday
WeekdaySets == SUBSET (0..6)

\* a new scheduler service, no job, nothing on disk
Quiet ==
    /\ running = NewScheduler.running
    /\ schedules = NewScheduler.schedules
    /\ jobstore = NewScheduler.jobstore
    /\ pending_jobs = NewScheduler.pending_jobs
    /\ added = NewScheduler.added
    /\ appSchedules = <<>>
    /\ appOps = 0
    /\ jobs = <<>>
    /\ delivered = <<>>
    /\ backup_completed_callback = "ok"
    /\ configServers = Registry
    /\ savePathExists = ServerIds
    /\ cloudReady = {}
    /\ srvRunning = {}
    /\ archiveRaises = {}
    /\ uploadOutcome = [s \in ServerIds |-> "true"]
    /\ fs = {}
    /\ now = T0
    /\ lastSweep = NoSweep
    /\ rs = Idle

QuietFrame ==
    UNCHANGED <<schedVars, appVars, jobVars, envVars, fsVars, rs>>

WeeklyFrame == QuietFrame /\ UNCHANGED <<backups, registry>>

\* line 65: days = [d + 1 for d in schedule.days_of_week]
CronDays(days_of_week) == { d + 1 : d \in days_of_week }

\* CronTrigger(day_of_week=...): an empty expression or a value above the
\* field's maximum raises ValueError; else the trigger matches these weekdays
CronTrigger(days) ==
    IF days = {} \/ \E d \in days : d > MaxWeekday
      THEN [raised |-> "ValueError"]
      ELSE [day_of_week |-> days]

\* lines 63-70: the trigger of a weekly schedule
WeeklyTrigger(days_of_week) == CronTrigger(CronDays(days_of_week))

InitWeekly ==
    /\ \E days_of_week \in WeekdaySets :
         cron = [pc |-> "new", days_of_week |-> days_of_week]
    /\ backups = [pc |-> "idle"]
    /\ registry = [pc |-> "idle"]
    /\ Quiet

\* add_schedule on a weekly schedule: arms the trigger, or raises
ArmWeekly ==
    /\ cron.pc = "new"
    /\ LET trigger == WeeklyTrigger(cron.days_of_week)
       IN cron' = IF "raised" \in DOMAIN trigger
                    THEN [pc |-> "raised", days_of_week |-> cron.days_of_week]
                    ELSE [pc |-> "armed", days_of_week |-> cron.days_of_week,
                          trigger |-> trigger, weekday |-> 0, fired |-> {}]
    /\ WeeklyFrame

\* the time of day of the schedule comes on the next weekday, Monday first
DayPasses ==
    /\ cron.pc = "armed"
    /\ cron.weekday <= MaxWeekday
    /\ cron' = [cron EXCEPT
                  !.weekday = @ + 1,
                  !.fired = IF cron.weekday \in cron.trigger.day_of_week
                              THEN @ \cup {cron.weekday} ELSE @]
    /\ WeeklyFrame

NextWeekly == ArmWeekly \/ DayPasses

SpecWeekly == InitWeekly /\ [][NextWeekly]_vars

\* C17: arming a weekly schedule succeeds for every non-empty days_of_week
\* subset of 0..6, and the trigger fires on exactly the weekdays in
\* days_of_week read as 0 = Monday .. 6 = Sunday.
WeeklyFiresOnChosenDays ==
    (cron.pc # "new" /\ cron.days_of_week # {}) =>
        /\ cron.pc = "armed"
        /\ \A d \in 0..(cron.weekday - 1) : d \in cron.fired <=> d \in cron.days_of_week

(***************************************************************************)
(* Snapshot file names and BackupInfo._extract_timestamp. A file name is   *)
(* the list of its underscore-separated parts, '.zip' taken off; a part    *)
(* is a word, a date or a time, written with dashes or without.            *)
(***************************************************************************)
Word(text) == [kind |-> "word", text |-> text]
DateToken(style, y, m, d) == [kind |-> "date", style |-> style, val |-> <<y, m, d>>]
TimeToken(style, h, mi, s) == [kind |-> "time", style |-> style, val |-> <<h, mi, s>>]

\* datetime(y, m, d, h, mi, s)
Datetime(date, time) == [at |-> date \o time]

\* datetime.min
DatetimeMin == Datetime(<<1, 1, 1>>, <<0, 0, 0>>)

\* the values datetime accepts
ValidDate(v) == v[1] \in 1..9999 /\ v[2] \in 1..12 /\ v[3] \in 1..31
ValidTime(v) == v[1] \in 0..23 /\ v[2] \in 0..59 /\ v[3] \in 0..59

\* datetime.strptime(f"{date_str}_{time_str}", format), the format being
\* "%Y-%m-%d_%H-%M-%S" (dashed) or "%Y%m%d_%H%M%S" (compact)
Strptime(date_str, time_str, style) ==
    IF /\ date_str.kind = "date" /\ time_str.kind = "time"
       /\ date_str.style = style /\ time_str.style = style
       /\ ValidDate(date_str.val) /\ ValidTime(time_str.val)
      THEN [raised |-> FALSE, value |-> Datetime(date_str.val, time_str.val)]
      ELSE [raised |-> TRUE]

\* str.replace('-', '') on a part
NoDashes(part) ==
    IF part.kind \in {"date", "time"} THEN [part EXCEPT !.style = "compact"] ELSE part

\* a parser that knows the dashed format only
extract_timestamp_dashed(parts) ==
    IF Len(parts) >= 3
      THEN LET first == Strptime(parts[Len(parts) - 1], parts[Len(parts)], "dashed")
           IN IF ~first.raised THEN first.value ELSE None
      ELSE None

\* BackupInfo._extract_timestamp, lines 20-53
extract_timestamp(parts) ==
    IF Len(parts) >= 3
      THEN LET date_str == parts[Len(parts) - 1]
               time_str == parts[Len(parts)]
               first == Strptime(date_str, time_str, "dashed")
               second == Strptime(date_str, time_str, "compact")
               third == Strptime(NoDashes(date_str), NoDashes(time_str), "compact")
           IN IF ~first.raised THEN first.value
              ELSE IF ~second.raised THEN second.value
              ELSE IF ~third.raised THEN third.value
              ELSE None
      ELSE None

\* backup_service.py lines 35 and 41: f"{server_name}_{timestamp}.zip" with
\* the timestamp formatted "%Y-%m-%d_%H-%M-%S"
ArchiveName(server_name, at) ==
    server_name \o <<DateToken("dashed", at.at[1], at.at[2], at.at[3]),
                     TimeToken("dashed", at.at[4], at.at[5], at.at[6])>>

(***************************************************************************)
(* SpecDiscover: RestoreService.discover_backups over backup trees drawn   *)
(* at the start.                                                           *)
(***************************************************************************)
MaxFiles == 3          \* most files in a backup tree

\* the instants the file names spell
March1At(h, mi) == Datetime(<<2024, 3, 1>>, <<h, mi, 0>>)

\* file names, as parts
DashedName == <<Word("MyServer"), DateToken("dashed", 2024, 3, 1), TimeToken("dashed", 14, 30, 0)>>
CompactName == <<Word("MyServer"), DateToken("compact", 2024, 3, 1), TimeToken("compact", 14, 30, 0)>>
PlainName == <<Word("MyServer"), Word("backup")>>
LongPlainName == <<Word("MyServer"), Word("old"), Word("backup")>>
MixedName == <<Word("MyServer"), DateToken("dashed", 2024, 3, 1), TimeToken("compact", 14, 30, 0)>>
BareName == <<DateToken("dashed", 2024, 3, 1), TimeToken("dashed", 14, 30, 0)>>
BadMonthName == <<Word("MyServer"), DateToken("dashed", 2024, 13, 1), TimeToken("dashed", 10, 0, 0)>>
FirstInstantName == <<Word("MyServer"), DateToken("dashed", 1, 1, 1), TimeToken("dashed", 0, 0, 0)>>

\* the names backup_server gives its archives
ServerNames == { <<Word("MyServer")>>, <<Word("My"), Word("Server")>>, <<Word("")>> }
JobInstants == { March1At(10, 0), March1At(12, 0) }
JobNames == { ArchiveName(n, at) : n \in ServerNames, at \in JobInstants }

\* a file below the backup root: depth 1 is {root}/{server}/{file}, depth 2
\* is {root}/{server}/{dir}/{file}, depth 3 one directory further down
File(server, depth, parts, suffix) ==
    [server |-> server, depth |-> depth, parts |-> parts, suffix |-> suffix]

FilePool ==
    { File("A", 2, n, ".zip") : n \in JobNames }
      \cup { File("A", 1, DashedName, ".zip"), File("Z", 2, CompactName, ".zip"),
             File("A", 1, PlainName, ".zip"), File("B", 2, LongPlainName, ".zip"),
             File("B", 1, MixedName, ".zip"), File("A", 2, BareName, ".zip"),
             File("B", 2, BadMonthName, ".zip"), File("Z", 1, FirstInstantName, ".zip"),
             File("A", 2, DashedName, ".txt"), File("A", 3, DashedName, ".zip") }

Trees == { tree \in SUBSET FilePool : Cardinality(tree) <= MaxFiles }

\* server_map.get(server_id, f"Server {server_id}")
ServerNameOf(servers, server_id) ==
    IF \E k \in DOMAIN servers : servers[k].server_id = server_id
      THEN (CHOOSE s \in Range(servers) : s.server_id = server_id).server_name
      ELSE <<"Server", server_id>>

\* BackupInfo.__init__
BackupInfo(file, servers) ==
    [filepath |-> file, server_id |-> file.server,
     server_name |-> ServerNameOf(servers, file.server),
     timestamp |-> extract_timestamp(file.parts)]

\* lines 98-122: the files the two globs find
Globbed(tree) == { f \in tree : f.suffix = ".zip" /\ f.depth \in {1, 2} }

\* the orders a directory listing can give the files in
Listings(files) ==
    { l \in [1..Cardinality(files) -> files] : Range(l) = files }

\* tuples compared from the left
RECURSIVE TupleLess(_, _)
TupleLess(a, b) ==
    IF a = <<>> THEN FALSE
    ELSE IF Head(a) # Head(b) THEN Head(a) < Head(b)
    ELSE TupleLess(Tail(a), Tail(b))

\* a sort key that puts the snapshots without a timestamp first
SortKeyNullNewest(b) ==
    IF b.timestamp = None THEN Datetime(<<9999, 12, 31>>, <<23, 59, 59>>) ELSE b.timestamp

\* line 125: the sort key
SortKey(b) == IF b.timestamp = None THEN DatetimeMin ELSE b.timestamp

\* one element put into a list sorted newest first, behind its equals
RECURSIVE Inserted(_, _)
Inserted(sorted, b) ==
    IF sorted = <<>> THEN <<b>>
    ELSE IF TupleLess(SortKey(Head(sorted)).at, SortKey(b).at)
           THEN <<b>> \o sorted
           ELSE <<Head(sorted)>> \o Inserted(Tail(sorted), b)

\* list.sort(key=..., reverse=True): stable, newest first
RECURSIVE SortedNewestFirst(_, _)
SortedNewestFirst(done, rest) ==
    IF rest = <<>> THEN done
    ELSE SortedNewestFirst(Inserted(done, Head(rest)), Tail(rest))

InitDiscover ==
    /\ \E tree \in Trees : backups = [pc |-> "new", tree |-> tree]
    /\ cron = [pc |-> "idle"]
    /\ registry = [pc |-> "idle"]
    /\ Quiet

\* RestoreService.discover_backups
discover_backups(servers) ==
    /\ backups.pc = "new"
    /\ \E listing \in Listings(Globbed(backups.tree)) :
         backups' = [pc |-> "done", tree |-> backups.tree,
                     result |-> SortedNewestFirst(<<>>,
                                   [k \in DOMAIN listing |-> BackupInfo(listing[k], servers)])]
    /\ QuietFrame
    /\ UNCHANGED <<cron, registry>>

NextDiscover == discover_backups(configServers)

SpecDiscover == InitDiscover /\ [][NextDiscover]_vars

\* the timestamps of the returned list, in order
Timestamps == [k \in DOMAIN backups.result |-> backups.result[k].timestamp]

\* every file the search finds is returned exactly once
ReturnedOnce ==
    /\ Len(backups.result) = Cardinality(Globbed(backups.tree))
    /\ { backups.result[k].filepath : k \in DOMAIN backups.result } = Globbed(backups.tree)

\* the parsed timestamps of the list descend
Descending ==
    \A i, j \in DOMAIN Timestamps :
        (i < j /\ Timestamps[i] # None /\ Timestamps[j] # None)
            => ~TupleLess(Timestamps[i].at, Timestamps[j].at)

\* C18 as stated: discover returns every snapshot file found exactly once,
\* newest first, with every snapshot without a timestamp after every
\* snapshot with one.
DiscoverNewestFirstNullLast ==
    backups.pc = "done" =>
        /\ ReturnedOnce
        /\ Descending
        /\ \A i, j \in DOMAIN Timestamps :
              i < j => ~(Timestamps[i] = None /\ Timestamps[j] # None)

\* C18, amended: discover returns every snapshot file found exactly once,
\* newest first, with every snapshot without a timestamp after every
\* snapshot whose timestamp is later than 0001-01-01 00:00:00, the instant
\* the snapshots without a timestamp are sorted as; timestamps null, 10:00
\* and 12:00 come back as 12:00, 10:00, null.
DiscoverNewestFirstNullAtMin ==
    backups.pc = "done" =>
        /\ ReturnedOnce
        /\ Descending
        /\ \A i, j \in DOMAIN Timestamps :
              (i < j /\ Timestamps[i] = None /\ Timestamps[j] # None)
                  => Timestamps[j] = Datetime(<<1, 1, 1>>, <<0, 0, 0>>)
        /\ Range(Timestamps) = {None, March1At(10, 0), March1At(12, 0)}
              /\ Len(Timestamps) = 3
              => Timestamps = <<March1At(12, 0), March1At(10, 0), None>>

\* C18 witness: snapshots of 12:00, 10:00 and one without a timestamp were
\* returned in that order.
DiscoverOrderWitness ==
    /\ backups.pc = "done"
    /\ Timestamps = <<March1At(12, 0), March1At(10, 0), None>>

\* a date part and a time part with values a datetime takes
DateAndTime(date_str, time_str) ==
    /\ date_str.kind = "date" /\ ValidDate(date_str.val)
    /\ time_str.kind = "time" /\ ValidTime(time_str.val)

\* the instant a date part and a time part spell
Spelled(date_str, time_str) == Datetime(date_str.val, time_str.val)

MaxLoads == 2          \* loads of the registry in one behaviour

RegistryIds == {"A", "B"}

\* models.ServerConfig with its name, save path and enabled flag
ServerEntry(id, name, path, en) ==
    [server_id |-> id, server_name |-> name, save_game_path |-> path, enabled |-> en]

\* paths: none, the one discovery finds, one set by hand
NoSavePath == <<>>
FoundPath(id) == <<id, "found">>
CustomPath(id) == <<id, "custom">>

\* WindowsGSMService.discover_servers: one entry per server folder, enabled
\* by default
Discovered(ids) ==
    LET one(id) == <<ServerEntry(id, <<"discovered", id>>, FoundPath(id), TRUE)>>
    IN (IF "A" \in ids THEN one("A") ELSE <<>>) \o (IF "B" \in ids THEN one("B") ELSE <<>>)

\* what the persisted config can hold for the servers
SavedLists ==
    LET forA == {<<>>} \cup
                { <<ServerEntry("A", <<"saved", "A">>, path, en)>> :
                    path \in {NoSavePath, FoundPath("A"), CustomPath("A")},
                    en \in BOOLEAN }
        forB == { <<>>, <<ServerEntry("B", <<"saved", "B">>, CustomPath("B"), FALSE)>> }
    IN { a \o b : a \in forA, b \in forB }

\* the save paths that can exist on disk
DiskPaths == SUBSET {FoundPath("A"), CustomPath("A"), CustomPath("B")}

\* next(s for s in config.servers if s.server_id == id), else None
SavedFor(saved, id) ==
    IF \E k \in DOMAIN saved : saved[k].server_id = id
      THEN saved[CHOOSE k \in DOMAIN saved :
                   /\ saved[k].server_id = id
                   /\ \A i \in 1..(k - 1) : saved[i].server_id # id]
      ELSE None

\* a saved path is kept whether it exists or not
KeptPathUnchecked(saved, existing) == saved.save_game_path # NoSavePath

\* line 332: saved.save_game_path and Path(saved.save_game_path).exists()
KeptPath(saved, existing) ==
    saved.save_game_path # NoSavePath /\ saved.save_game_path \in existing

\* lines 327-333: one discovered server merged with its saved entry
MergedEntry(discovered, saved, existing) ==
    IF saved = None THEN discovered
    ELSE [discovered EXCEPT
            !.enabled = saved.enabled,
            !.save_game_path = IF KeptPath(saved, existing)
                                 THEN saved.save_game_path ELSE @]

\* lines 337-339: the saved servers that are not among the servers so far
RECURSIVE WithUndiscovered(_, _)
WithUndiscovered(servers, saved) ==
    IF saved = <<>> THEN servers
    ELSE WithUndiscovered(
            IF \E k \in DOMAIN servers : servers[k].server_id = Head(saved).server_id
              THEN servers ELSE Append(servers, Head(saved)),
            Tail(saved))

\* lines 318-339: the merge
MergedServers(discovered, saved, existing) ==
    IF discovered = <<>> /\ saved # <<>> THEN saved
    ELSE WithUndiscovered(
            [k \in DOMAIN discovered |->
                MergedEntry(discovered[k], SavedFor(saved, discovered[k].server_id), existing)],
            saved)

InitRegistry ==
    /\ \E ids \in SUBSET RegistryIds, saved \in SavedLists, existing \in DiskPaths :
         registry = [pc |-> "new", folders |-> ids, existing |-> existing,
                     config |-> saved, servers |-> <<>>, loads |-> 0,
                     before |-> None]
    /\ cron = [pc |-> "idle"]
    /\ backups = [pc |-> "idle"]
    /\ Quiet

RegistryFrame == QuietFrame /\ UNCHANGED <<cron, backups>>

\* MainWindow.load_servers: discover, merge, store the result in the config
load_servers ==
    /\ registry.loads < MaxLoads
    /\ LET servers == MergedServers(Discovered(registry.folders), registry.config,
                                    registry.existing)
       IN registry' = [registry EXCEPT
                          !.pc = "loaded",
                          !.servers = servers,
                          !.config = servers,
                          !.before = [discovered |-> Discovered(registry.folders),
                                      saved |-> registry.config,
                                      existing |-> registry.existing],
                          !.loads = @ + 1]
    /\ RegistryFrame

\* between two loads server folders and save paths appear and disappear
DiskChanges(ids, existing) ==
    /\ registry.pc = "loaded"
    /\ registry.loads < MaxLoads
    /\ registry' = [registry EXCEPT !.pc = "changed", !.folders = ids,
                                    !.existing = existing]
    /\ RegistryFrame

NextRegistry ==
    \/ load_servers
    \/ \E ids \in SUBSET RegistryIds, existing \in DiskPaths : DiskChanges(ids, existing)

SpecRegistry == InitRegistry /\ [][NextRegistry]_vars

\* the entries of a server list with the id
EntriesOf(servers, id) == { k \in DOMAIN servers : servers[k].server_id = id }

\* the saved path of the entry was set and is still on disk at the load
SavedPathExists(s) ==
    s.save_game_path # NoSavePath /\ s.save_game_path \in registry.before.existing

\* what every load keeps: unique ids, no persisted server dropped, the
\* persisted-only servers as they were, the discovered identity, the result
\* stored in the config
MergeKeepsServers ==
    LET b == registry.before
        servers == registry.servers
    IN /\ \A id \in RegistryIds : Cardinality(EntriesOf(servers, id)) <= 1
       /\ \A k \in DOMAIN b.saved : EntriesOf(servers, b.saved[k].server_id) # {}
       /\ \A k \in DOMAIN b.saved :
             EntriesOf(b.discovered, b.saved[k].server_id) = {}
                => b.saved[k] \in Range(servers)
       /\ \A k \in DOMAIN b.discovered :
             \E i \in DOMAIN servers :
                /\ servers[i].server_id = b.discovered[k].server_id
                /\ servers[i].server_name = b.discovered[k].server_name
                /\ EntriesOf(b.saved, b.discovered[k].server_id) = {}
                      => servers[i] = b.discovered[k]
       /\ registry.config = servers

MaxPairJobs == 2       \* job executions started in one behaviour

\* two schedules with disjoint servers and different roots, and two
\* schedules that share a root and a server
PairDefs ==
    { << BackupSchedule("s1", TRUE, {"A", "B"}, "r1", 7, FALSE, "none"),
         BackupSchedule("s2", TRUE, {"C"}, "r2", 3, FALSE, "none") >>,
      << BackupSchedule("s1", TRUE, {"A"}, "r1", 7, FALSE, "none"),
         BackupSchedule("s2", TRUE, {"A", "C"}, "r1", 3, FALSE, "none") >> }

\* the servers that run and the backup tree when the first job starts
PairRunning == {"A", "B"}
PairFs ==
    { Entry("r1", "A", 1, T0 - 8 * SecondsPerDay, TRUE),
      Entry("r2", "C", 2, T0 - 5 * SecondsPerDay, TRUE) }

InitPair ==
    /\ running = TRUE
    /\ \E d \in PairDefs :
         /\ schedules = <<d[1], d[2]>>
         /\ added = [id \in ScheduleIds |-> IF id = "s1" THEN <<d[1]>> ELSE <<d[2]>>]
         /\ appSchedules = <<d[1], d[2]>>
    /\ jobstore = <<"s1", "s2">>
    /\ pending_jobs = <<>>
    /\ appOps = 0
    /\ jobs = <<>>
    /\ delivered = <<>>
    /\ backup_completed_callback = "ok"
    /\ configServers = Registry
    /\ savePathExists \in {ServerIds, {"A", "C"}}
    /\ cloudReady = {}
    /\ srvRunning = PairRunning
    /\ archiveRaises = {}
    /\ uploadOutcome = [s \in ServerIds |-> "true"]
    /\ fs = PairFs
    /\ now = T0
    /\ lastSweep = NoSweep
    /\ rs = Idle
    /\ SideIdle

\* the background scheduler runs one instance of a trigger's job at a time
\* (max_instances is left at 1); triggers of other schedules fire meanwhile
FireConcurrent(id) ==
    /\ Armed(id)
    /\ Len(jobs) < MaxPairJobs
    /\ \A k \in DOMAIN jobs :
          (jobs[k].via = "fire" /\ jobs[k].schedule_id = id) => jobs[k].pc = "done"
    /\ jobs' = Append(jobs, NewJob(id, configServers, "fire"))
    /\ UNCHANGED <<delivered, srvRunning, fs, lastSweep>>
    /\ JobFrame

\* MainWindow.run_backup_now: every call starts a thread of its own that
\* runs execute_backup_async for a schedule of the list
RunNowConcurrent(id) ==
    /\ Len(jobs) < MaxPairJobs
    /\ \E k \in DOMAIN appSchedules : appSchedules[k].schedule_id = id
    /\ jobs' = Append(jobs, NewJob(id, configServers, "runNow"))
    /\ UNCHANGED <<delivered, srvRunning, fs, lastSweep>>
    /\ JobFrame

NextPair ==
    \/ \E id \in ScheduleIds : FireConcurrent(id)
    \/ \E id \in ScheduleIds : RunNowConcurrent(id)
    \/ \E j \in DOMAIN jobs : JobStep(j)

SpecPair == InitPair /\ [][NextPair]_vars

\* no other job shares a server or the root with job j
Isolated(j) ==
    \A k \in DOMAIN jobs \ {j} :
        /\ jobs[k].schedule.server_ids \cap jobs[j].schedule.server_ids = {}
        /\ jobs[k].schedule.backup_path # jobs[j].schedule.backup_path

\* the result a server gets from a job that runs alone
AloneResult(sid, schedule) ==
    LET r == backup_server(sid, schedule.backup_path, now)
    IN IF CloudWanted(schedule, r) /\ BackendReady(schedule)
         THEN AfterUpload(r, sid, schedule.cloud_backup_type, uploadOutcome[sid])
         ELSE r

\* the stop and start calls of a job that runs alone while the servers of
\* running0 run
RECURSIVE AloneCalls(_, _, _)
AloneCalls(targets, schedule, running0) ==
    IF targets = <<>> THEN <<>>
    ELSE LET sid == Head(targets)
         IN (IF sid \in running0 THEN << <<"stop", sid>> >> ELSE <<>>)
            \o (IF AloneResult(sid, schedule).success THEN << <<"start", sid>> >> ELSE <<>>)
            \o AloneCalls(Tail(targets), schedule, running0)

\* the entries below a root
Below(entries, root) == { e \in entries : e.root = root }

\* what is below the job's root when a job that runs alone on the initial
\* tree gets to its sweep
AloneBeforeSweep(job) ==
    LET root == job.schedule.backup_path
        made == { sid \in Range(job.enabled_servers) : sid \in savePathExists }
    IN { e \in Below(PairFs, root) : ~(e.server \in made /\ e.name = now) }
          \cup { SnapshotDir(root, sid, now) : sid \in made }

Archived ==
    { <<j, i>> \in (DOMAIN jobs) \X (1..3) :
         i \in DOMAIN jobs[j].server_results /\ jobs[j].server_results[i].success }

\* C30: no two archive steps write the same archive file: the recorded
\* backup paths of any two successful archive steps differ, also for jobs
\* that run at the same time (run now racing a fire of the same schedule,
\* two schedules sharing a root and a server) within the same second.
ArchivePathsDistinct ==
    \A a, b \in Archived :
        a # b => jobs[a[1]].server_results[a[2]].backup_path
                    # jobs[b[1]].server_results[b[2]].backup_path

(***************************************************************************)
(* SpecClock: a job whose steps take time. The clock advances between the  *)
(* steps of the job: a stop, an archive or an upload can take a second or  *)
(* longer than a day.                                                      *)
(***************************************************************************)
\* the longest time the steps of one behaviour take, in seconds
MaxElapsed == SecondsPerDay + 1

\* the schedules the timed jobs run for
ClockDefs ==
    { BackupSchedule("s1", TRUE, {"A", "C"}, "r1", rd, FALSE, "none") : rd \in {1, 2} }

InitClock ==
    /\ running = TRUE
    /\ \E d \in ClockDefs :
         /\ schedules = <<d>>
         /\ added = [id \in ScheduleIds |-> IF id = d.schedule_id THEN <<d>> ELSE <<>>]
         /\ jobstore = <<d.schedule_id>>
         /\ appSchedules = <<d>>
    /\ pending_jobs = <<>>
    /\ appOps = 0
    /\ jobs = <<>>
    /\ delivered = <<>>
    /\ backup_completed_callback = "ok"
    /\ configServers = Registry
    /\ savePathExists \in {ServerIds, {"C"}}
    /\ cloudReady = {}
    /\ srvRunning = {"A"}
    /\ archiveRaises = {}
    /\ uploadOutcome = [s \in ServerIds |-> "true"]
    /\ fs = {}
    /\ now = T0
    /\ lastSweep = NoSweep
    /\ rs = Idle
    /\ SideIdle

\* datetime.now() moves on while a step of the job is under way: by a
\* second from a full day, or by a day
Elapse(dt) ==
    /\ now + dt - T0 <= MaxElapsed
    /\ dt = 1 => (now - T0) % SecondsPerDay = 0
    /\ now' = now + dt
    /\ UNCHANGED <<fs, lastSweep>>
    /\ SweepFrame

NextClock ==
    \/ \E id \in ScheduleIds : Fire(id)
    \/ \E j \in DOMAIN jobs : JobStep(j)
    \/ \E dt \in {1, SecondsPerDay} : Elapse(dt)

SpecClock == InitClock /\ [][NextClock]_vars

\* the snapshot directory behind a successful result
SnapshotOf(r) == SnapshotDir(r.backup_path[1], r.backup_path[2], r.backup_path[3])

\* C29 as stated: for every schedule with retention_days >= 1 the sweep at
\* the end of a job never deletes a snapshot directory the same job
\* created, so the backup_path of every successful result still exists
\* after the job's sweep.
OwnSnapshotNeverSwept ==
    \A j \in DOMAIN jobs :
      LET job == jobs[j] IN
        (PastSweep(job) /\ job.schedule.retention_days >= 1) =>
            \A i \in DOMAIN job.server_results :
                job.server_results[i].success =>
                    SnapshotOf(job.server_results[i]) \notin job.sweeps[1].removed

\* C29, amended: for every schedule with retention_days >= 1 the sweep at
\* the end of a job does not delete a snapshot directory the same job
\* created unless more than retention_days * 24 h have passed between the
\* directory's creation and the sweep; a directory that old is deleted like
\* any other.
OwnSnapshotKeptWithinRetention ==
    \A j \in DOMAIN jobs :
      LET job == jobs[j] IN
        (PastSweep(job) /\ job.schedule.retention_days >= 1) =>
            \A i \in DOMAIN job.server_results :
                LET r == job.server_results[i]
                    sweep == job.sweeps[1]
                    age == sweep.at - r.backup_path[3]
                IN r.success =>
                     /\ age <= job.schedule.retention_days * SecondsPerDay
                           => SnapshotOf(r) \notin sweep.removed
                     /\ (/\ age > job.schedule.retention_days * SecondsPerDay
                         /\ SnapshotOf(r) \in sweep.before)
                           => (SnapshotOf(r) \in sweep.removed \/ SnapshotOf(r) \in sweep.failed)

\* C29 witness: under retention_days = 1 the job archived A, exactly one
\* day passed before its sweep, and the snapshot directory is still there.
OwnSnapshotAtBoundaryWitness ==
    \E j \in DOMAIN jobs :
        /\ jobs[j].pc = "done"
        /\ jobs[j].schedule.retention_days = 1
        /\ jobs[j].server_results[1].success
        /\ jobs[j].server_results[1].backup_path = <<"r1", "A", T0>>
        /\ jobs[j].sweeps[1].at = T0 + SecondsPerDay
        /\ SnapshotDir("r1", "A", T0) \in fs

====
